---- MODULE Spec2Model ----
(***************************************************************************)
(* The segmented commit log of internal/log: store (length-prefixed,       *)
(* buffered file), index (memory-mapped fixed-width entries), segment      *)
(* (store + index under a base offset) and Log (ordered list of segments   *)
(* with rollover, truncation, close and reopen).                           *)
(*                                                                         *)
(* Files are byte sequences (store) and entry arrays with a file length    *)
(* (index).  Objects of the Go heap are records; segments are addressed by *)
(* their base offset, which is unique within one Log object because every  *)
(* segment created at rollover gets a base above all earlier ones.         *)
(***************************************************************************)
EXTENDS Integers, Sequences, FiniteSets, TLC

\* ------------------------------------------------------------------ bounds

\* Number of Log.Append calls, and of segment.Append calls on a segment
\* built on its own, in one behaviour.
MaxAppends == 3

\* The number of index.Write calls on an index built on its own.
MaxWrites == 3

\* ------------------------------------------------------- program constants

lenWidth == 8

offWidth == 4

posWidth == 8

entWidth == offWidth + posWidth

\* The number of values of uint64 and int64, and of uint32: the model keeps
\* the wrap of the 64-bit and of the 32-bit arithmetic at 16 and at 8 bits.
Wrap64 == 65536

Wrap32 == 256

\* uint64(n), int64(n) and uint32(n) of an integer n
ToUint64(n) == n % Wrap64

ToInt64(n) == IF n % Wrap64 >= Wrap64 \div 2 THEN (n % Wrap64) - Wrap64 ELSE n % Wrap64

ToUint32(n) == n % Wrap32

DefaultMaxStoreBytes == 1024

DefaultMaxIndexBytes == 1024

Nil == "nil"

EOF == "EOF"

\* The fault of touching a mapped page that lies wholly beyond the end of
\* the mapped file (the process is killed).
SIGBUS == "SIGBUS"

ErrOffsetOutOfRange == "ErrOffsetOutOfRange"

ErrClosed == "file already closed"

ErrProto == "proto: cannot parse"

ErrNotExist == "no such file or directory"

\* The error of an Authorizer that rejects.
ErrPermissionDenied == "permission denied"

\* The error of a stream.Send that fails.
ErrSend == "transport is closing"

\* ErrOffsetNotFound of the HTTP server.
ErrOffsetNotFound == "offset not found"

\* A nil *segment.
NoSegment == -1

\* A nil *api.Record; a returned record r is <<r>>.
NoRecord == <<>>

\* ------------------------------------------------------------------ inputs

\* Record values handed to Append (byte strings of different lengths).
Values == { <<>>, <<104, 105>> }

\* The Config values given to NewLog: store-bound rollover (after one or
\* two records, by their size) with the default index size; index-bound
\* with room for exactly two entries, the default store size and a non-zero
\* InitialOffset; an index size that is no multiple of entWidth.
Configs ==
  { [MaxStoreBytes |-> 10, MaxIndexBytes |-> 0,  InitialOffset |-> 0],
    [MaxStoreBytes |-> 0,  MaxIndexBytes |-> 24, InitialOffset |-> 1],
    [MaxStoreBytes |-> 30, MaxIndexBytes |-> 30, InitialOffset |-> 0] }

\* The base offsets given to a segment built on its own.
Bases == { 0, 16 }

\* The Config values of the runs with a segment built on its own: those of
\* NewLog and an index with room for exactly one entry.
SegmentConfigs ==
  Configs \cup { [MaxStoreBytes |-> 0, MaxIndexBytes |-> 12, InitialOffset |-> 0] }

\* The arguments of Read and Truncate: every offset a behaviour can
\* assign, and one more.
Offsets == 0..(MaxAppends + 1)

\* ------------------------------------------------------------------ codecs

RECURSIVE BigEndian(_, _)
\* n as w big-endian bytes.
BigEndian(n, w) ==
  IF w = 0 THEN <<>> ELSE Append(BigEndian(n \div 256, w - 1), n % 256)

RECURSIVE Uint64(_)
\* The number a big-endian byte string stands for.
Uint64(b) ==
  IF b = <<>> THEN 0
  ELSE Uint64(SubSeq(b, 1, Len(b) - 1)) * 256 + b[Len(b)]

RECURSIVE Varint(_)
Varint(n) ==
  IF n < 128 THEN <<n>> ELSE <<128 + (n % 128)>> \o Varint(n \div 128)

RECURSIVE VarintVal(_)
VarintVal(p) ==
  IF p[1] < 128 THEN p[1] ELSE (p[1] - 128) + 128 * VarintVal(Tail(p))

RECURSIVE VarintLen(_)
VarintLen(p) == IF p[1] < 128 THEN 1 ELSE 1 + VarintLen(Tail(p))

\* A varint starts at p and ends inside it.
VarintOk(p) == \E k \in 1..Len(p) : p[k] < 128

\* proto.Marshal of api.Record {bytes value = 1; uint64 offset = 2}: a field
\* holding its zero value is left out.
Marshal(record) ==
  (IF record.Value = <<>> THEN <<>>
   ELSE <<10>> \o Varint(Len(record.Value)) \o record.Value)
  \o (IF record.Offset = 0 THEN <<>> ELSE <<16>> \o Varint(record.Offset))

RECURSIVE ParseFields(_, _)
ParseFields(p, rec) ==
  IF p = <<>> THEN [rec |-> rec, err |-> Nil]
  ELSE IF Len(p) < 2 \/ ~VarintOk(Tail(p)) THEN [rec |-> rec, err |-> ErrProto]
  ELSE LET v == VarintVal(Tail(p))
           n == VarintLen(Tail(p))
       IN IF p[1] = 10
          THEN IF Len(p) < 1 + n + v THEN [rec |-> rec, err |-> ErrProto]
               ELSE ParseFields(SubSeq(p, 2 + n + v, Len(p)),
                                [rec EXCEPT !.Value = SubSeq(p, 2 + n, 1 + n + v)])
          ELSE IF p[1] = 16
          THEN ParseFields(SubSeq(p, 2 + n, Len(p)), [rec EXCEPT !.Offset = v])
          ELSE [rec |-> rec, err |-> ErrProto]

\* proto.Unmarshal into a fresh api.Record.
Unmarshal(p) == ParseFields(p, [Value |-> <<>>, Offset |-> 0])

\* ------------------------------------------------------------------- store

\* A store object: size counts every appended byte, buf holds the bytes the
\* bufio.Writer has not written to the file yet, err is the error the
\* bufio.Writer keeps from its first failed write (it then refuses every
\* later Write and Flush).  Every store modelled here stays below the
\* capacity of the bufio.Writer, so a Write by itself never flushes.
newStore(f) == [size |-> Len(f), buf |-> <<>>, closed |-> FALSE, err |-> Nil]

\* store.Append that counts the frame before the writes are known to have
\* succeeded.
storeAppend_CountsFirst(s, p) ==
  IF s.err # Nil
  THEN [store |-> [s EXCEPT !.size = @ + lenWidth + Len(p)],
        n |-> 0, pos |-> 0, err |-> s.err]
  ELSE [store |-> [s EXCEPT !.buf = @ \o BigEndian(Len(p), lenWidth) \o p,
                            !.size = @ + lenWidth + Len(p)],
        n     |-> lenWidth + Len(p),
        pos   |-> s.size,
        err   |-> Nil]

\* store.Append that leaves the length prefix out of the count.
storeAppend_NoPrefix(s, p) ==
  IF s.err # Nil THEN [store |-> s, n |-> 0, pos |-> 0, err |-> s.err]
  ELSE [store |-> [s EXCEPT !.buf = @ \o BigEndian(Len(p), lenWidth) \o p,
                            !.size = @ + Len(p)],
        n     |-> Len(p),
        pos   |-> s.size,
        err   |-> Nil]

\* store.Append: the length prefix and the payload go to the write buffer;
\* the first write fails, and nothing changes, when the bufio.Writer holds
\* an error.
storeAppend(s, p) ==
  IF s.err # Nil THEN [store |-> s, n |-> 0, pos |-> 0, err |-> s.err]
  ELSE [store |-> [s EXCEPT !.buf = @ \o BigEndian(Len(p), lenWidth) \o p,
                            !.size = @ + lenWidth + Len(p)],
        n     |-> lenWidth + Len(p),
        pos   |-> s.size,
        err   |-> Nil]

\* bufio.Writer.Flush that reports success without writing the buffer.
Flush_Skips(s, f) == [store |-> s, file |-> f, err |-> s.err]

\* bufio.Writer.Flush: the kept error if there is one; nothing to do on an
\* empty buffer; else one write to the file, which fails, and is kept as
\* the error, once the file was closed.
Flush(s, f) ==
  IF s.err # Nil THEN [store |-> s, file |-> f, err |-> s.err]
  ELSE IF s.buf = <<>> THEN [store |-> s, file |-> f, err |-> Nil]
  ELSE IF s.closed
  THEN [store |-> [s EXCEPT !.err = ErrClosed], file |-> f, err |-> ErrClosed]
  ELSE [store |-> [s EXCEPT !.buf = <<>>], file |-> f \o s.buf, err |-> Nil]

\* os.File.ReadAt of n bytes at byte offset off (0-based).
FileReadAt(f, n, off) ==
  IF n = 0 THEN [b |-> <<>>, err |-> Nil]
  ELSE IF off + n > Len(f) THEN [b |-> <<>>, err |-> EOF]
  ELSE [b |-> SubSeq(f, off + 1, off + n), err |-> Nil]

\* store.Read: flush, read the length prefix at pos, read that many bytes.
\* File.ReadAt fails once the file was closed.
storeRead(s, f, pos) ==
  LET fl == Flush(s, f) IN
  IF fl.err # Nil THEN [store |-> fl.store, file |-> fl.file, p |-> <<>>, err |-> fl.err]
  ELSE IF s.closed
  THEN [store |-> fl.store, file |-> fl.file, p |-> <<>>, err |-> ErrClosed]
  ELSE LET size == FileReadAt(fl.file, lenWidth, pos) IN
       IF size.err # Nil
       THEN [store |-> fl.store, file |-> fl.file, p |-> <<>>, err |-> size.err]
       ELSE LET b == FileReadAt(fl.file, Uint64(size.b), pos + lenWidth) IN
            [store |-> fl.store, file |-> fl.file, p |-> b.b, err |-> b.err]

\* store.ReadAt without the flush.
storeReadAt_NoFlush(s, f, n, off) ==
  IF s.closed THEN [store |-> s, file |-> f, p |-> <<>>, err |-> ErrClosed]
  ELSE IF off + n > Len(f)
  THEN [store |-> s, file |-> f, p |-> SubSeq(f, off + 1, Len(f)), err |-> EOF]
  ELSE [store |-> s, file |-> f, p |-> SubSeq(f, off + 1, off + n), err |-> Nil]

\* store.ReadAt: flush, then File.ReadAt of up to n bytes at off: the bytes
\* the file has there, with io.EOF when they are fewer than n.
storeReadAt(s, f, n, off) ==
  LET fl == Flush(s, f) IN
  IF fl.err # Nil THEN [store |-> fl.store, file |-> fl.file, p |-> <<>>, err |-> fl.err]
  ELSE IF s.closed
  THEN [store |-> fl.store, file |-> fl.file, p |-> <<>>, err |-> ErrClosed]
  ELSE IF off + n > Len(fl.file)
  THEN [store |-> fl.store, file |-> fl.file,
        p |-> SubSeq(fl.file, off + 1, Len(fl.file)), err |-> EOF]
  ELSE [store |-> fl.store, file |-> fl.file,
        p |-> SubSeq(fl.file, off + 1, off + n), err |-> Nil]

\* store.Close that closes the file without flushing the write buffer.
storeClose_NoFlush(s, f) ==
  IF s.closed THEN [store |-> s, file |-> f, err |-> ErrClosed]
  ELSE [store |-> [s EXCEPT !.closed = TRUE], file |-> f, err |-> Nil]

\* store.Close: flush, then close the file, which fails when it was
\* closed before.
storeClose(s, f) ==
  LET fl == Flush(s, f) IN
  IF fl.err # Nil THEN [store |-> fl.store, file |-> fl.file, err |-> fl.err]
  ELSE IF s.closed THEN [store |-> fl.store, file |-> fl.file, err |-> ErrClosed]
  ELSE [store |-> [fl.store EXCEPT !.closed = TRUE], file |-> fl.file, err |-> Nil]

\* ------------------------------------------------------------------- index

\* An index file: its length in bytes and the entries written to it, entry
\* k at bytes k*entWidth; bytes never written read as zero.
EmptyIndexFile == [len |-> 0, ents |-> <<>>]

\* Entry k (0-based) of the mapped file.
Entry(f, k) == IF k + 1 <= Len(f.ents) THEN f.ents[k + 1] ELSE <<0, 0>>

\* os.Truncate / File.Truncate of an index file to n bytes.
TruncateFile(f, n) ==
  [len  |-> n,
   ents |-> IF Len(f.ents) * entWidth <= n THEN f.ents
            ELSE SubSeq(f.ents, 1, n \div entWidth)]

\* newIndex that starts every index empty.
newIndex_SizeZero(f, c) ==
  [index |-> [size |-> 0, mmapLen |-> c.MaxIndexBytes,
              flen |-> c.MaxIndexBytes, closed |-> FALSE],
   file  |-> TruncateFile(f, c.MaxIndexBytes)]

\* newIndex: size is the length the file had, then the file is grown to
\* MaxIndexBytes and mapped.  flen is the current length of the mapped file
\* (every mapping modelled here fits in one page, so the page is backed by
\* the file exactly when flen > 0).
newIndex(f, c) ==
  [index |-> [size |-> f.len, mmapLen |-> c.MaxIndexBytes,
              flen |-> c.MaxIndexBytes, closed |-> FALSE],
   file  |-> TruncateFile(f, c.MaxIndexBytes)]

\* index.Close without the truncation to size: the file keeps the length
\* newIndex gave it.
indexClose_NoTruncate(i, f) ==
  [index |-> [i EXCEPT !.closed = TRUE], file |-> f, err |-> Nil]

\* index.Close: sync, truncate the file to size, close it.  The mapping is
\* not unmapped.  File.Sync fails when the file was closed before.
indexClose(i, f) ==
  IF i.closed THEN [index |-> i, file |-> f, err |-> ErrClosed]
  ELSE [index |-> [i EXCEPT !.closed = TRUE, !.flen = i.size],
        file  |-> TruncateFile(f, i.size),
        err   |-> Nil]

\* index.Read that does not check the entry number against size.
indexRead_Unchecked(i, f, in) ==
  IF i.size = 0 THEN [out |-> 0, pos |-> 0, err |-> EOF]
  ELSE LET out == IF in = -1 THEN (i.size \div entWidth) - 1 ELSE ToUint32(in)
       IN [out |-> Entry(f, out)[1], pos |-> Entry(f, out)[2], err |-> Nil]

\* index.Read
indexRead(i, f, in) ==
  IF i.size = 0 THEN [out |-> 0, pos |-> 0, err |-> EOF]
  ELSE LET out == IF in = -1 THEN (i.size \div entWidth) - 1 ELSE ToUint32(in)
           pos == out * entWidth
       IN IF i.size < pos + entWidth THEN [out |-> 0, pos |-> 0, err |-> EOF]
          ELSE [out |-> Entry(f, out)[1], pos |-> Entry(f, out)[2], err |-> Nil]

\* index.Write refusing the entry that exactly fills the mapping.
indexWrite_OffByOne(i, f, off, pos) ==
  IF i.mmapLen <= i.size + entWidth THEN [index |-> i, file |-> f, err |-> EOF]
  ELSE IF i.flen = 0 THEN [index |-> i, file |-> f, err |-> SIGBUS]
  ELSE [index |-> [i EXCEPT !.size = @ + entWidth],
        file  |-> IF i.closed THEN f
                  ELSE [f EXCEPT !.ents =
                          [k \in 1..(i.size \div entWidth) |-> Entry(f, k - 1)]
                          \o << <<off, pos>> >>],
        err   |-> Nil]

\* index.Write: EOF when the mapping has no room for one more entry; else
\* the entry is stored in the mapping at byte size.  A mapping whose file
\* was truncated to nothing has no backed page: the store faults.  A
\* mapping whose file was closed and unlinked keeps only the memory.
indexWrite(i, f, off, pos) ==
  IF i.mmapLen < i.size + entWidth THEN [index |-> i, file |-> f, err |-> EOF]
  ELSE IF i.flen = 0 THEN [index |-> i, file |-> f, err |-> SIGBUS]
  ELSE [index |-> [i EXCEPT !.size = @ + entWidth],
        file  |-> IF i.closed THEN f
                  ELSE [f EXCEPT !.ents =
                          [k \in 1..(i.size \div entWidth) |-> Entry(f, k - 1)]
                          \o << <<off, pos>> >>],
        err   |-> Nil]

\* ----------------------------------------------------------------- segment

\* A directory: whether it exists, and its <base>.store and <base>.index
\* files, each a function of the base offsets that have such a file.
NoFiles == [k \in {} |-> <<>>]

EmptyDir == [exists |-> TRUE, store |-> NoFiles, index |-> NoFiles]

\* The two files of the segment with base offset b, and whether each is
\* linked in the directory.
Files(d, b) ==
  [hasStore |-> b \in DOMAIN d.store,
   store    |-> IF b \in DOMAIN d.store THEN d.store[b] ELSE <<>>,
   hasIndex |-> b \in DOMAIN d.index,
   index    |-> IF b \in DOMAIN d.index THEN d.index[b] ELSE EmptyIndexFile]

NoFile == [hasStore |-> FALSE, store |-> <<>>,
           hasIndex |-> FALSE, index |-> EmptyIndexFile]

\* The directory with the files of base offset b replaced by fs.
PutFiles(d, b, fs) ==
  [d EXCEPT
     !.store = IF ~fs.hasStore
               THEN [k \in DOMAIN d.store \ {b} |-> d.store[k]]
               ELSE [k \in DOMAIN d.store \cup {b} |->
                       IF k = b THEN fs.store ELSE d.store[k]],
     !.index = IF ~fs.hasIndex
               THEN [k \in DOMAIN d.index \ {b} |-> d.index[k]]
               ELSE [k \in DOMAIN d.index \cup {b} |->
                       IF k = b THEN fs.index ELSE d.index[k]]]

\* newSegment: open or create <baseOffset>.store and <baseOffset>.index,
\* build the store and the index, and take nextOffset from the last index
\* entry (baseOffset when the index is empty).
newSegment(d, baseOffset, c) ==
  LET old == Files(d, baseOffset)
      sf  == old.store
      ni  == newIndex(old.index, c)
      r   == indexRead(ni.index, ni.file, -1)
  IN [seg |-> [baseOffset |-> baseOffset,
               nextOffset |-> IF r.err # Nil THEN baseOffset
                              ELSE baseOffset + r.out + 1,
               store      |-> newStore(sf),
               index      |-> ni.index,
               config     |-> c],
      fs  |-> [hasStore |-> TRUE, store |-> sf,
               hasIndex |-> TRUE, index |-> ni.file],
      err |-> IF d.exists THEN Nil ELSE ErrNotExist]

\* segment.Append that writes the offset itself, not the offset relative to
\* baseOffset, to the index.
segmentAppend_AbsoluteOffset(s, fs, record) ==
  LET cur == s.nextOffset
      p   == Marshal([record EXCEPT !.Offset = cur])
      a   == storeAppend(s.store, p)
      w   == indexWrite(s.index, fs.index, s.nextOffset, a.pos)
  IN IF a.err # Nil
     THEN [seg |-> [s EXCEPT !.store = a.store], fs |-> fs,
           off |-> 0, err |-> a.err]
     ELSE IF w.err # Nil
     THEN [seg |-> [s EXCEPT !.store = a.store], fs |-> fs,
           off |-> 0, err |-> w.err]
     ELSE [seg |-> [s EXCEPT !.store = a.store, !.index = w.index,
                             !.nextOffset = @ + 1],
           fs  |-> [fs EXCEPT !.index = w.file],
           off |-> cur, err |-> Nil]

\* segment.Append that writes the size of the store after the append, not
\* the position of the frame, to the index.
segmentAppend_PosAfter(s, fs, record) ==
  LET cur == s.nextOffset
      p   == Marshal([record EXCEPT !.Offset = cur])
      a   == storeAppend(s.store, p)
      w   == indexWrite(s.index, fs.index, s.nextOffset - s.baseOffset, a.store.size)
  IN IF a.err # Nil
     THEN [seg |-> [s EXCEPT !.store = a.store], fs |-> fs,
           off |-> 0, err |-> a.err]
     ELSE IF w.err # Nil
     THEN [seg |-> [s EXCEPT !.store = a.store], fs |-> fs,
           off |-> 0, err |-> w.err]
     ELSE [seg |-> [s EXCEPT !.store = a.store, !.index = w.index,
                             !.nextOffset = @ + 1],
           fs  |-> [fs EXCEPT !.index = w.file],
           off |-> cur, err |-> Nil]

\* segment.Append that does not advance nextOffset.
segmentAppend_NoAdvance(s, fs, record) ==
  LET cur == s.nextOffset
      p   == Marshal([record EXCEPT !.Offset = cur])
      a   == storeAppend(s.store, p)
      w   == indexWrite(s.index, fs.index, s.nextOffset - s.baseOffset, a.pos)
  IN IF a.err # Nil
     THEN [seg |-> [s EXCEPT !.store = a.store], fs |-> fs,
           off |-> 0, err |-> a.err]
     ELSE IF w.err # Nil
     THEN [seg |-> [s EXCEPT !.store = a.store], fs |-> fs,
           off |-> 0, err |-> w.err]
     ELSE [seg |-> [s EXCEPT !.store = a.store, !.index = w.index],
           fs  |-> [fs EXCEPT !.index = w.file],
           off |-> cur, err |-> Nil]


\* segment.Append that advances nextOffset before it writes the index
\* entry, and leaves it advanced when that write fails.
segmentAppend_AdvanceFirst(s, fs, record) ==
  LET cur == s.nextOffset
      p   == Marshal([record EXCEPT !.Offset = cur])
      a   == storeAppend(s.store, p)
      w   == indexWrite(s.index, fs.index, s.nextOffset - s.baseOffset, a.pos)
  IN IF a.err # Nil
     THEN [seg |-> [s EXCEPT !.store = a.store], fs |-> fs,
           off |-> 0, err |-> a.err]
     ELSE IF w.err # Nil
     THEN [seg |-> [s EXCEPT !.store = a.store, !.nextOffset = @ + 1], fs |-> fs,
           off |-> 0, err |-> w.err]
     ELSE [seg |-> [s EXCEPT !.store = a.store, !.index = w.index,
                             !.nextOffset = @ + 1],
           fs  |-> [fs EXCEPT !.index = w.file],
           off |-> cur, err |-> Nil]

\* segment.Append: stamp the record with nextOffset, marshal it, append the
\* payload to the store and return its error, write the index entry and
\* return its error, advance nextOffset.  The store keeps the frame when the
\* index write fails.
segmentAppend(s, fs, record) ==
  LET cur == s.nextOffset
      p   == Marshal([record EXCEPT !.Offset = cur])
      a   == storeAppend(s.store, p)
      w   == indexWrite(s.index, fs.index, s.nextOffset - s.baseOffset, a.pos)
  IN IF a.err # Nil
     THEN [seg |-> [s EXCEPT !.store = a.store], fs |-> fs,
           off |-> 0, err |-> a.err]
     ELSE IF w.err # Nil
     THEN [seg |-> [s EXCEPT !.store = a.store], fs |-> fs,
           off |-> 0, err |-> w.err]
     ELSE [seg |-> [s EXCEPT !.store = a.store, !.index = w.index,
                             !.nextOffset = @ + 1],
           fs  |-> [fs EXCEPT !.index = w.file],
           off |-> cur, err |-> Nil]

\* segment.Read: position from the index entry int64(off - baseOffset),
\* the difference taken in uint64; payload from the store, record from the
\* payload.
segmentRead(s, fs, off) ==
  LET x == indexRead(s.index, fs.index, ToInt64(ToUint64(off - s.baseOffset))) IN
  IF x.err # Nil THEN [seg |-> s, fs |-> fs, rec |-> NoRecord, err |-> x.err]
  ELSE LET r == storeRead(s.store, fs.store, x.pos)
           g == [s EXCEPT !.store = r.store]
           h == [fs EXCEPT !.store = r.file]
       IN IF r.err # Nil THEN [seg |-> g, fs |-> h, rec |-> NoRecord, err |-> r.err]
          ELSE [seg |-> g, fs |-> h,
                rec |-> <<Unmarshal(r.p).rec>>, err |-> Unmarshal(r.p).err]

\* segment.IsMaxed
IsMaxed(s) ==
  \/ s.store.size >= s.config.MaxStoreBytes
  \/ s.index.size >= s.config.MaxIndexBytes

\* segment.Close: the index, then the store.
segmentClose(s, fs) ==
  LET i == indexClose(s.index, fs.index)
      c == storeClose(s.store, fs.store)
  IN IF i.err # Nil THEN [seg |-> s, fs |-> fs, err |-> i.err]
     ELSE [seg |-> [s EXCEPT !.index = i.index, !.store = c.store],
           fs  |-> [fs EXCEPT !.store = c.file, !.index = i.file],
           err |-> c.err]

\* segment.Remove: Close, then delete both files.
segmentRemove(s, fs) ==
  LET c == segmentClose(s, fs) IN
  IF c.err # Nil THEN c
  ELSE [seg |-> c.seg, fs |-> NoFile, err |-> Nil]

\* --------------------------------------------------------------------- log

\* The process state st = [dir, heap, l]: the directory, the segment
\* objects by base offset, and the Log object.  l.state is "open", "closed"
\* (after Close) or "crashed" (the process was killed by a fault).

Min(S) == CHOOSE m \in S : \A k \in S : m <= k

RECURSIVE SortedNames(_, _)
\* Log.setup, lines 61-71: one base offset per file of the directory,
\* sorted ascending (S: bases of the .store files, X: of the .index files).
SortedNames(S, X) ==
  IF S \cup X = {} THEN <<>>
  ELSE LET m == Min(S \cup X) IN
       (IF m \in S THEN <<m>> ELSE <<>>) \o (IF m \in X THEN <<m>> ELSE <<>>)
       \o SortedNames(S \ {m}, X \ {m})

\* Log.newSegment: create the segment, append it to the list, make it the
\* active segment.
LogNewSegment(st, off) ==
  LET n == newSegment(st.dir, off, st.l.Config) IN
  IF n.err # Nil THEN [st |-> st, err |-> n.err]
  ELSE [st  |-> [dir  |-> PutFiles(st.dir, off, n.fs),
                 heap |-> [k \in DOMAIN st.heap \cup {off} |->
                             IF k = off THEN n.seg ELSE st.heap[k]],
                 l    |-> [st.l EXCEPT !.segments = Append(@, off),
                                       !.activeSegment = off]],
        err |-> Nil]

RECURSIVE SetupLoop_Step1(_, _, _)
\* The loop of Log.setup without the extra i++ that skips the second file
\* of each pair.
SetupLoop_Step1(st, baseOffsets, i) ==
  IF i > Len(baseOffsets) THEN [st |-> st, err |-> Nil]
  ELSE LET n == LogNewSegment(st, baseOffsets[i]) IN
       IF n.err # Nil THEN n ELSE SetupLoop_Step1(n.st, baseOffsets, i + 1)

RECURSIVE SetupLoop(_, _, _)
\* Log.setup, lines 73-79: a segment for baseOffsets[i], then i += 2.
SetupLoop(st, baseOffsets, i) ==
  IF i > Len(baseOffsets) THEN [st |-> st, err |-> Nil]
  ELSE LET n == LogNewSegment(st, baseOffsets[i]) IN
       IF n.err # Nil THEN n ELSE SetupLoop(n.st, baseOffsets, i + 2)

\* Log.setup
setup(st) ==
  IF ~st.dir.exists THEN [st |-> st, err |-> ErrNotExist]
  ELSE LET r == SetupLoop(st, SortedNames(DOMAIN st.dir.store, DOMAIN st.dir.index), 1) IN
       IF r.err # Nil THEN r
       ELSE IF r.st.l.segments = <<>>
       THEN LogNewSegment(r.st, r.st.l.Config.InitialOffset)
       ELSE r

\* NewLog, lines 28-33: the defaults of the configuration.
WithDefaults(c) ==
  [c EXCEPT !.MaxStoreBytes = IF @ = 0 THEN DefaultMaxStoreBytes ELSE @,
            !.MaxIndexBytes = IF @ = 0 THEN DefaultMaxIndexBytes ELSE @]

\* NewLog: the defaults of the configuration, then setup.
NewLog(d, c) ==
  setup([dir  |-> d,
         heap |-> NoFiles,
         l    |-> [Config |-> WithDefaults(c), segments |-> <<>>,
                   activeSegment |-> NoSegment, state |-> "open"]])

\* The state with segment object s and its files fs stored back.  The
\* files of an unlinked segment are not in the directory.
PutSegment(st, s, fs) ==
  [st EXCEPT !.heap = [@ EXCEPT ![s.baseOffset] = s],
             !.dir  = PutFiles(@, s.baseOffset, fs)]


\* Log.Append appending to the first segment of the list, not to the
\* active one.
LogAppend_FirstSegment(st, record) ==
  LET b == IF st.l.segments = <<>> THEN st.l.activeSegment ELSE st.l.segments[1]
      a == segmentAppend(st.heap[b], Files(st.dir, b), record)
      s1 == PutSegment(st, a.seg, a.fs)
  IN IF a.err = SIGBUS
     THEN [st |-> [s1 EXCEPT !.l.state = "crashed"], off |-> 0, err |-> SIGBUS]
     ELSE IF a.err # Nil THEN [st |-> s1, off |-> 0, err |-> a.err]
     ELSE IF IsMaxed(a.seg)
     THEN LET n == LogNewSegment(s1, a.off + 1) IN
          [st |-> n.st, off |-> a.off, err |-> n.err]
     ELSE [st |-> s1, off |-> a.off, err |-> Nil]

\* Log.Append opening the new segment one offset too far.
LogAppend_SkipsOffset(st, record) ==
  LET b == st.l.activeSegment
      a == segmentAppend(st.heap[b], Files(st.dir, b), record)
      s1 == PutSegment(st, a.seg, a.fs)
  IN IF a.err = SIGBUS
     THEN [st |-> [s1 EXCEPT !.l.state = "crashed"], off |-> 0, err |-> SIGBUS]
     ELSE IF a.err # Nil THEN [st |-> s1, off |-> 0, err |-> a.err]
     ELSE IF IsMaxed(a.seg)
     THEN LET n == LogNewSegment(s1, a.off + 2) IN
          [st |-> n.st, off |-> a.off, err |-> n.err]
     ELSE [st |-> s1, off |-> a.off, err |-> Nil]

\* Log.Append: append to the active segment; when that leaves it maxed,
\* open a new segment at off + 1.
LogAppend(st, record) ==
  LET b == st.l.activeSegment
      a == segmentAppend(st.heap[b], Files(st.dir, b), record)
      s1 == PutSegment(st, a.seg, a.fs)
  IN IF a.err = SIGBUS
     THEN [st |-> [s1 EXCEPT !.l.state = "crashed"], off |-> 0, err |-> SIGBUS]
     ELSE IF a.err # Nil THEN [st |-> s1, off |-> 0, err |-> a.err]
     ELSE IF IsMaxed(a.seg)
     THEN LET n == LogNewSegment(s1, a.off + 1) IN
          [st |-> n.st, off |-> a.off, err |-> n.err]
     ELSE [st |-> s1, off |-> a.off, err |-> Nil]

\* The search of Log.Read with the upper end of a segment included.
Covering_Inclusive(st, off) ==
  LET hit == { k \in 1..Len(st.l.segments) :
                 /\ st.heap[st.l.segments[k]].baseOffset <= off
                 /\ off <= st.heap[st.l.segments[k]].nextOffset }
  IN IF hit = {} THEN 0 ELSE Min(hit)

\* Log.Read, lines 113-118: the first segment of the list that covers off
\* (0 when there is none).
Covering(st, off) ==
  LET hit == { k \in 1..Len(st.l.segments) :
                 /\ st.heap[st.l.segments[k]].baseOffset <= off
                 /\ off < st.heap[st.l.segments[k]].nextOffset }
  IN IF hit = {} THEN 0 ELSE Min(hit)

\* Log.Read looking at the active segment only.
LogRead_ActiveOnly(st, off) ==
  LET b == st.l.activeSegment IN
  IF ~(st.heap[b].baseOffset <= off /\ off < st.heap[b].nextOffset)
  THEN [st |-> st, rec |-> NoRecord, err |-> ErrOffsetOutOfRange, Offset |-> off]
  ELSE LET r == segmentRead(st.heap[b], Files(st.dir, b), off)
       IN [st |-> PutSegment(st, r.seg, r.fs), rec |-> r.rec, err |-> r.err,
           Offset |-> 0]

\* Log.Read
LogRead(st, off) ==
  LET k == Covering(st, off) IN
  IF k = 0
  THEN [st |-> st, rec |-> NoRecord, err |-> ErrOffsetOutOfRange, Offset |-> off]
  ELSE LET b == st.l.segments[k]
           r == segmentRead(st.heap[b], Files(st.dir, b), off)
       IN [st |-> PutSegment(st, r.seg, r.fs), rec |-> r.rec, err |-> r.err,
           Offset |-> 0]

RECURSIVE CloseLoop(_, _)
\* Log.Close, lines 131-135
CloseLoop(st, k) ==
  IF k > Len(st.l.segments) THEN [st |-> st, err |-> Nil]
  ELSE LET b == st.l.segments[k]
           c == segmentClose(st.heap[b], Files(st.dir, b))
       IN IF c.err # Nil THEN [st |-> st, err |-> c.err]
          ELSE CloseLoop(PutSegment(st, c.seg, c.fs), k + 1)

\* Log.Close
LogClose(st) ==
  LET c == CloseLoop(st, 1) IN
  [st |-> [c.st EXCEPT !.l.state = "closed"], err |-> c.err]

RECURSIVE TruncateLoop(_, _, _, _)
\* Log.Truncate, lines 163-174: the segments kept, in order; every segment
\* with nextOffset <= lowest + 1, the sum taken in uint64, is removed.
TruncateLoop(st, lowest, k, kept) ==
  IF k > Len(st.l.segments) THEN [st |-> st, segments |-> kept, err |-> Nil]
  ELSE LET b == st.l.segments[k]
           s == st.heap[b]
       IN IF s.nextOffset <= ToUint64(lowest + 1)
          THEN LET r == segmentRemove(s, Files(st.dir, b)) IN
               IF r.err # Nil THEN [st |-> st, segments |-> kept, err |-> r.err]
               ELSE TruncateLoop(PutSegment(st, r.seg, r.fs), lowest, k + 1, kept)
          ELSE TruncateLoop(st, lowest, k + 1, Append(kept, b))

\* The heap without the segment objects that nothing refers to any more.
Collect(st) ==
  LET live == { st.l.segments[k] : k \in 1..Len(st.l.segments) }
                \cup ({st.l.activeSegment} \cap DOMAIN st.heap)
  IN [st EXCEPT !.heap = [k \in live |-> st.heap[k]]]

\* Log.Truncate
LogTruncate(st, lowest) ==
  LET t == TruncateLoop(st, lowest, 1, <<>>) IN
  IF t.err # Nil THEN [st |-> t.st, err |-> t.err]
  ELSE [st |-> Collect([t.st EXCEPT !.l.segments = t.segments]), err |-> Nil]

\* os.RemoveAll(l.Dir): the directory and every file in it are gone.
RemoveAll(d) == [exists |-> FALSE, store |-> NoFiles, index |-> NoFiles]

RECURSIVE ReadAll(_, _, _, _, _)
\* io.ReadAll of the io.MultiReader of Log.Reader, with reads of n bytes:
\* readers are the segments whose stores are still to be read, off is
\* originReader.off of the first of them, acc the bytes read so far.  An
\* originReader that returns io.EOF is dropped and the next one is read
\* from 0; any other error ends the stream.
ReadAll(st, readers, off, n, acc) ==
  IF readers = <<>> THEN [st |-> st, p |-> acc, err |-> Nil]
  ELSE LET b == readers[1]
           r == storeReadAt(st.heap[b].store, Files(st.dir, b).store, n, off)
           s == PutSegment(st, [st.heap[b] EXCEPT !.store = r.store],
                           [Files(st.dir, b) EXCEPT !.store = r.file])
       IN IF r.err = EOF THEN ReadAll(s, Tail(readers), 0, n, acc \o r.p)
          ELSE IF r.err # Nil THEN [st |-> s, p |-> acc \o r.p, err |-> r.err]
          ELSE ReadAll(s, readers, off + Len(r.p), n, acc \o r.p)

\* Log.Reader, read to the end: one originReader at 0 per segment of the
\* list, in order.
LogReader(st, n) == ReadAll(st, st.l.segments, 0, n, <<>>)

RECURSIVE Frames(_)
\* The payloads of a byte stream read as frames: lenWidth bytes of length,
\* then that many bytes.
Frames(b) ==
  IF Len(b) < lenWidth THEN <<>>
  ELSE LET n == Uint64(SubSeq(b, 1, lenWidth)) IN
       IF Len(b) < lenWidth + n THEN <<>>
       ELSE <<SubSeq(b, lenWidth + 1, lenWidth + n)>>
            \o Frames(SubSeq(b, lenWidth + n + 1, Len(b)))

\* Log.LowestOffset: indexing an empty segment list panics.
LowestOffset(st) ==
  IF st.l.segments = <<>> THEN [off |-> 0, err |-> "panic"]
  ELSE [off |-> st.heap[st.l.segments[1]].baseOffset, err |-> Nil]

\* Log.HighestOffset returning nextOffset itself.
HighestOffset_NoDecrement(st) ==
  IF st.l.segments = <<>> THEN [off |-> 0, err |-> "panic"]
  ELSE [off |-> st.heap[st.l.segments[Len(st.l.segments)]].nextOffset, err |-> Nil]

\* Log.HighestOffset
HighestOffset(st) ==
  IF st.l.segments = <<>> THEN [off |-> 0, err |-> "panic"]
  ELSE LET off == st.heap[st.l.segments[Len(st.l.segments)]].nextOffset IN
       [off |-> IF off = 0 THEN 0 ELSE off - 1, err |-> Nil]

\* ------------------------------------------------------------- gRPC server

\* The subjects of the client certificates.
Subjects == { "root", "nobody" }

\* The policy of the Authorizer: root may produce and consume, nobody may
\* do neither.
Policy == { <<"root", "produce">>, <<"root", "consume">> }

\* Authorizer.Authorize(subject, "*", action)
Authorize(subject, action) ==
  IF <<subject, action>> \in Policy THEN Nil ELSE ErrPermissionDenied

\* grpcServer.Produce that appends whoever the caller is and asks the
\* Authorizer afterwards.
Produce_AppendsFirst(st, subject, record) ==
  LET r == LogAppend(st, record) IN
  IF Authorize(subject, "produce") # Nil
  THEN [st |-> r.st, res |-> <<>>, err |-> Authorize(subject, "produce")]
  ELSE IF r.err # Nil THEN [st |-> r.st, res |-> <<>>, err |-> r.err]
  ELSE [st |-> r.st, res |-> <<r.off>>, err |-> Nil]

\* grpcServer.Produce: res is <<offset>> for a ProduceResponse, <<>> for nil.
Produce(st, subject, record) ==
  IF Authorize(subject, "produce") # Nil
  THEN [st |-> st, res |-> <<>>, err |-> Authorize(subject, "produce")]
  ELSE LET r == LogAppend(st, record) IN
       IF r.err # Nil THEN [st |-> r.st, res |-> <<>>, err |-> r.err]
       ELSE [st |-> r.st, res |-> <<r.off>>, err |-> Nil]

\* grpcServer.Consume: res is <<record>> for a ConsumeResponse, <<>> for nil.
Consume(st, subject, off) ==
  IF Authorize(subject, "consume") # Nil
  THEN [st |-> st, res |-> <<>>, err |-> Authorize(subject, "consume")]
  ELSE LET r == LogRead(st, off) IN
       IF r.err # Nil THEN [st |-> r.st, res |-> <<>>, err |-> r.err]
       ELSE [st |-> r.st, res |-> r.rec, err |-> Nil]

\* The loop gives up when the offset is not in the log yet.
StreamSwitch_NoWait(s, c, sendOk) ==
  IF c.err # Nil
  THEN [st |-> c.st, s |-> [s EXCEPT !.pc = "returned", !.err = c.err]]
  ELSE IF ~sendOk
  THEN [st |-> c.st, s |-> [s EXCEPT !.pc = "returned", !.err = ErrSend]]
  ELSE [st |-> c.st, s |-> [s EXCEPT !.sent = Append(@, c.res[1]),
                                     !.offset = @ + 1]]

\* The rest of a pass of the loop of ConsumeStream, c being what Consume
\* returned: the switch on the error (api.ErrOffsetOutOfRange: continue
\* with the same offset; any other error: return it), stream.Send (sendOk:
\* it succeeds) and req.Offset++.
StreamSwitch(s, c, sendOk) ==
  IF c.err = ErrOffsetOutOfRange THEN [st |-> c.st, s |-> s]
  ELSE IF c.err # Nil
  THEN [st |-> c.st, s |-> [s EXCEPT !.pc = "returned", !.err = c.err]]
  ELSE IF ~sendOk
  THEN [st |-> c.st, s |-> [s EXCEPT !.pc = "returned", !.err = ErrSend]]
  ELSE [st |-> c.st, s |-> [s EXCEPT !.sent = Append(@, c.res[1]),
                                     !.offset = @ + 1]]

\* One pass of the loop of ConsumeStream on stream s: return nil when the
\* client's context is done, else Consume at req.Offset and the rest.
StreamPass(st, s, sendOk) ==
  IF s.done THEN [st |-> st, s |-> [s EXCEPT !.pc = "returned", !.err = Nil]]
  ELSE StreamSwitch(s, Consume(st, s.subject, s.offset), sendOk)

\* ------------------------------------------------------------------- state

VARIABLES
  cfg,     \* the Config handed to NewLog and to newSegment
  dir,     \* the log directory
  heap,    \* the segment objects of the Log, by base offset
  l,       \* the Log object
  sg,      \* a segment built on its own (as in TestSegment) and its files
  ret,     \* the last call: its arguments, what it returned, and for
           \* Truncate, Close and NewLog what the log showed before
  rets,    \* the offsets returned by the successful Log.Append calls on l
  sgRets,  \* what each segment.Append call on sg returned
  kinds,   \* the kinds of calls made on l since NewLog
  onEmpty, \* l was opened on an empty directory
  calls,   \* how many Append calls were made on l and on sg
  sto,     \* a store built on its own (as in TestStoreAppendRead), its file
  stoRets, \* what each store.Append call on sto was given and returned
  mu,      \* l.mu: the goroutine that holds the lock, 0 when it is free
  gor,     \* the goroutines that call l: where each is in its call
  wrote,   \* the values of the successful Log.Append calls made by
           \* goroutines, in the order the calls ran
  idx,     \* an index built on its own (as in TestIndex), its file, and
           \* the entries written to it
  srv,     \* a ConsumeStream call of the gRPC server whose CommitLog is l
  mem,     \* the in-memory Log of the HTTP server and the goroutines
           \* that call it
  lk       \* the locks held by the goroutines that call l: lk.w holds
           \* l.mu for writing (0: nobody), lk.r hold it for reading,
           \* lk.s is the pairs <<b, g>> of g holding the mutex of the
           \* store of the segment with base offset b

vars == <<cfg, dir, heap, l, sg, ret, rets, sgRets, kinds, onEmpty, calls,
          sto, stoRets, mu, gor, wrote, idx, srv, mem, lk>>

State == [dir |-> dir, heap |-> heap, l |-> l]

SetState(st) == dir' = st.dir /\ heap' = st.heap /\ l' = st.l

\* What Read(o) returns, without its effect on the state.
ReadResult(st, o) ==
  LET r == LogRead(st, o) IN [rec |-> r.rec, err |-> r.err, Offset |-> r.Offset]

\* What the log shows: LowestOffset, HighestOffset and Read of every offset.
Observed(st) ==
  [lowest |-> LowestOffset(st), highest |-> HighestOffset(st),
   reads  |-> [o \in Offsets |-> ReadResult(st, o)],
   kinds  |-> kinds, onEmpty |-> onEmpty]

NoObserved ==
  [lowest |-> [off |-> 0, err |-> Nil], highest |-> [off |-> 0, err |-> Nil],
   reads  |-> [o \in Offsets |-> [rec |-> NoRecord, err |-> Nil, Offset |-> 0]],
   kinds  |-> {}, onEmpty |-> FALSE]

Ret(op, arg, value, off, rec, err, errOffset, before) ==
  [op |-> op, arg |-> arg, value |-> value, off |-> off, rec |-> rec,
   err |-> err, Offset |-> errOffset, before |-> before]

NoSeg == [seg |-> <<>>, fs |-> NoFile]

InitLog(C) ==
  /\ cfg \in C
  /\ LET n == NewLog(EmptyDir, cfg) IN
     /\ dir = n.st.dir /\ heap = n.st.heap /\ l = n.st.l
     /\ ret = Ret("NewLog", 0, <<>>, 0, NoRecord, n.err, 0, NoObserved)
  /\ rets = <<>>
  /\ sgRets = <<>>
  /\ kinds = {}
  /\ onEmpty = TRUE
  /\ calls = [appends |-> 0, sgAppends |-> 0]

\* The number of goroutines that call one Log.
NumGoroutines == 2

Goroutines == 1..NumGoroutines

\* A goroutine that is in no call.
Idle == [pc |-> "idle", op |-> "", value |-> <<>>, arg |-> 0]

\* No store built on its own.
NoStore ==
  /\ sto = [store |-> newStore(<<>>), file |-> <<>>, from |-> 0, opened |-> 0]
  /\ stoRets = <<>>

\* No index built on its own.
NoIndex ==
  idx = [index |-> [size |-> 0, mmapLen |-> 0, flen |-> 0, closed |-> TRUE],
         file |-> EmptyIndexFile, c |-> 0, written |-> <<>>, writes |-> 0,
         opens |-> 0]

\* No ConsumeStream call.
NoStream == [pc |-> "none", subject |-> "", start |-> 0, offset |-> 0,
             sent |-> <<>>, done |-> FALSE, err |-> Nil]

NoServer == srv = NoStream

\* The in-memory Log as NewLog() returns it (&Log{}), no goroutine calling.
NoMem ==
  mem = [mu |-> 0, records |-> <<>>, gor |-> [g \in Goroutines |-> Idle],
         appended |-> <<>>, started |-> 0]

\* No lock is held.
NoLocks == lk = [w |-> 0, r |-> {}, s |-> {}]

\* No goroutine: the calls on l are made one after the other.
NoGoroutines ==
  /\ mu = 0
  /\ gor = [g \in Goroutines |-> Idle]
  /\ wrote = <<>>

\* NewLog on an empty directory.
Init == InitLog(Configs) /\ sg = NoSeg /\ NoStore /\ NoGoroutines /\ NoIndex /\ NoServer /\ NoMem /\ NoLocks

\* l.Append(&api.Record{Value: v})
AppendCall(v) ==
  /\ l.state = "open"
  /\ calls.appends < MaxAppends
  /\ \E r \in {LogAppend(State, [Value |-> v, Offset |-> 0])} :
     /\ SetState(r.st)
     /\ ret' = Ret("Append", 0, v, r.off, NoRecord, r.err, 0, NoObserved)
     /\ rets' = IF r.err = Nil THEN Append(rets, r.off) ELSE rets
     /\ kinds' = kinds \cup {IF r.err = Nil THEN "Append" ELSE "AppendFailed"}
  /\ calls' = [calls EXCEPT !.appends = @ + 1]
  /\ UNCHANGED <<srv, mem, idx, lk, cfg, sg, sgRets, onEmpty>>
  /\ UNCHANGED <<sto, stoRets, mu, gor, wrote>>

\* l.Read(off)
ReadCall(off) ==
  /\ l.state = "open"
  /\ \E r \in {LogRead(State, off)} :
     /\ SetState(r.st)
     /\ ret' = Ret("Read", off, <<>>, 0, r.rec, r.err, r.Offset, NoObserved)
  /\ kinds' = kinds \cup {"Read"}
  /\ UNCHANGED <<srv, mem, idx, lk, cfg, sg, rets, sgRets, onEmpty, calls>>
  /\ UNCHANGED <<sto, stoRets, mu, gor, wrote>>

\* l.Truncate(lowest)
TruncateCall(lowest) ==
  /\ l.state = "open"
  /\ \E r \in {LogTruncate(State, lowest)} :
     /\ SetState(r.st)
     /\ ret' = Ret("Truncate", lowest, <<>>, 0, NoRecord, r.err, 0, Observed(State))
  /\ kinds' = kinds \cup {"Truncate"}
  /\ UNCHANGED <<srv, mem, idx, lk, cfg, sg, rets, sgRets, onEmpty, calls>>
  /\ UNCHANGED <<sto, stoRets, mu, gor, wrote>>

\* l.Close()
CloseCall ==
  /\ l.state = "open"
  /\ \E r \in {LogClose(State)} :
     /\ SetState(r.st)
     /\ ret' = Ret("Close", 0, <<>>, 0, NoRecord, r.err, 0, Observed(State))
  /\ UNCHANGED <<srv, mem, idx, lk, cfg, sg, rets, sgRets, kinds, onEmpty, calls>>
  /\ UNCHANGED <<sto, stoRets, mu, gor, wrote>>

\* NewLog(l.Dir, l.Config) right after l.Close(): a new Log object on the
\* same directory with the same Config.
ReopenCall ==
  /\ l.state = "closed"
  /\ ret.op = "Close"
  /\ \E n \in {NewLog(dir, cfg)} :
     /\ SetState(n.st)
     /\ ret' = Ret("NewLog", 0, <<>>, 0, NoRecord, n.err, 0, ret.before)
  /\ onEmpty' = (DOMAIN dir.store \cup DOMAIN dir.index = {})
  /\ rets' = <<>>
  /\ kinds' = {}
  /\ UNCHANGED <<srv, mem, idx, lk, cfg, sg, sgRets, calls>>
  /\ UNCHANGED <<sto, stoRets, mu, gor, wrote>>

Next ==
  \/ \E v \in Values : AppendCall(v)
  \/ \E off \in Offsets : ReadCall(off)
  \/ \E lowest \in Offsets : TruncateCall(lowest)
  \/ CloseCall
  \/ ReopenCall

Spec == Init /\ [][Next]_vars

\* ------------------------------------------ calls on the gRPC server

\* The Config of the log of the server: log.Config{}, and the Configs with
\* small segments.
ServerConfigs ==
  Configs \cup { [MaxStoreBytes |-> 0, MaxIndexBytes |-> 0, InitialOffset |-> 0] }

\* The server with its CommitLog on an empty directory; no stream yet.
InitServer ==
  /\ InitLog(ServerConfigs) /\ sg = NoSeg /\ NoStore /\ NoGoroutines
  /\ NoIndex /\ NoServer /\ NoMem /\ NoLocks

\* Produce(ctx of subject, &ProduceRequest{Record: {Value: v}})
ProduceCall(subject, v) ==
  /\ calls.appends < MaxAppends
  /\ \E r \in {Produce(State, subject, [Value |-> v, Offset |-> 0])} :
     /\ SetState(r.st)
     /\ ret' = Ret("Produce", 0, v, IF r.res = <<>> THEN 0 ELSE r.res[1],
                   NoRecord, r.err, 0, NoObserved)
     /\ rets' = IF r.err = Nil THEN Append(rets, r.res[1]) ELSE rets
     /\ kinds' = kinds \cup {IF r.err = Nil THEN "Produce" ELSE "ProduceFailed"}
     /\ calls' = IF Authorize(subject, "produce") = Nil
                 THEN [calls EXCEPT !.appends = @ + 1] ELSE calls
  /\ UNCHANGED <<srv, mem, idx, lk, cfg, sg, sgRets, onEmpty>>
  /\ UNCHANGED <<sto, stoRets, mu, gor, wrote>>

\* Consume(ctx of subject, &ConsumeRequest{Offset: off})
ConsumeCall(subject, off) ==
  /\ \E r \in {Consume(State, subject, off)} :
     /\ SetState(r.st)
     /\ ret' = Ret("Consume", off, <<>>, 0, r.res, r.err, 0, NoObserved)
  /\ kinds' = kinds \cup {"Consume"}
  /\ UNCHANGED <<srv, mem, idx, lk, cfg, sg, rets, sgRets, onEmpty, calls>>
  /\ UNCHANGED <<sto, stoRets, mu, gor, wrote>>

\* ConsumeStream(&ConsumeRequest{Offset: s}, stream) by subject starts.
ConsumeStreamCall(subject, s) ==
  /\ srv.pc = "none"
  /\ srv' = [NoStream EXCEPT !.pc = "running", !.subject = subject,
                              !.start = s, !.offset = s]
  /\ UNCHANGED <<lk, cfg, dir, heap, l, sg, ret, rets, sgRets, kinds, onEmpty, calls>>
  /\ UNCHANGED <<mem, idx, sto, stoRets, mu, gor, wrote>>

\* The client of the stream cancels: stream.Context() is done.
CancelStream ==
  /\ srv.pc = "running" /\ ~srv.done
  /\ srv' = [srv EXCEPT !.done = TRUE]
  /\ UNCHANGED <<lk, cfg, dir, heap, l, sg, ret, rets, sgRets, kinds, onEmpty, calls>>
  /\ UNCHANGED <<mem, idx, sto, stoRets, mu, gor, wrote>>

\* One pass of the loop of the running ConsumeStream.
StreamStep ==
  /\ srv.pc = "running"
  /\ \E sendOk \in BOOLEAN :
       \E r \in {StreamPass(State, srv, sendOk)} :
       /\ SetState(r.st)
       /\ srv' = r.s
  /\ UNCHANGED <<lk, cfg, sg, ret, rets, sgRets, kinds, onEmpty, calls>>
  /\ UNCHANGED <<mem, idx, sto, stoRets, mu, gor, wrote>>

\* Produce and Consume requests of both subjects.
NextServer ==
  \/ \E subject \in Subjects, v \in Values : ProduceCall(subject, v)
  \/ \E subject \in Subjects, off \in Offsets : ConsumeCall(subject, off)

SpecServer == InitServer /\ [][NextServer]_vars

\* One ConsumeStream next to Produce requests.
NextStream ==
  \/ \E subject \in Subjects, v \in Values : ProduceCall(subject, v)
  \/ \E subject \in Subjects, s \in 0..1 : ConsumeStreamCall(subject, s)
  \/ CancelStream
  \/ StreamStep

\* ENABLED <<StreamStep>>_vars written out: a pass of the loop changes the
\* stream or the log (StreamStep leaves every other variable alone).
StreamEnabled ==
  /\ srv.pc = "running"
  /\ \E sendOk \in BOOLEAN :
       \E r \in {StreamPass(State, srv, sendOk)} : r.st # State \/ r.s # srv

\* The goroutine that runs ConsumeStream keeps running its loop: this is
\* WF_vars(StreamStep) with its ENABLED written as StreamEnabled.
StreamFair == <>[]StreamEnabled => []<><<StreamStep>>_vars

SpecStream == InitServer /\ [][NextStream]_vars /\ StreamFair

\* ------------------------------------------ in-memory Log of the HTTP server

\* Goroutines calling one in-memory Log (the handlers of concurrent HTTP
\* requests).  mem.mu is the goroutine holding c.mu (0: none); mem.gor[g].pc
\* is "idle" outside a call, "calling" before c.mu.Lock() has returned,
\* "locked" after it, "stamped" after record.Offset was set in Append.
\* mem.appended lists the Append calls in the order they returned.

\* c.mu.Lock() never returns while another goroutine holds c.mu.
MutexFree_Ignored(m) == TRUE

\* c.mu.Lock() returns only when no goroutine holds c.mu.
MutexFree(m) == m.mu = 0

\* The Record{} returned next to an error.
ZeroRecord == [Value |-> <<>>, Offset |-> 0]

\* The body of Read: the record at offset, or ErrOffsetNotFound.
MemLogRead(m, offset) ==
  IF offset >= Len(m.records) THEN [rec |-> ZeroRecord, err |-> ErrOffsetNotFound]
  ELSE [rec |-> m.records[offset + 1], err |-> Nil]

\* NewLog() of the in-memory Log; the commit log on disk plays no part.
InitMem ==
  /\ InitLog({[MaxStoreBytes |-> 0, MaxIndexBytes |-> 0, InitialOffset |-> 0]})
  /\ sg = NoSeg /\ NoStore /\ NoGoroutines /\ NoIndex /\ NoServer /\ NoMem /\ NoLocks

\* g calls c.Append(Record{Value: v}) or c.Read(off).
MemCall(g, op, v, off) ==
  /\ mem.gor[g].pc = "idle"
  /\ op = "Append" => mem.started < MaxAppends
  /\ mem' = [mem EXCEPT !.gor[g] = [pc |-> "calling", op |-> op, value |-> v, arg |-> off],
                        !.started = IF op = "Append" THEN @ + 1 ELSE @]
  /\ UNCHANGED <<srv, idx, lk, cfg, dir, heap, l, sg, ret, rets, sgRets, kinds, onEmpty, calls>>
  /\ UNCHANGED <<sto, stoRets, mu, gor, wrote>>

\* c.mu.Lock() of g's call returns.
MemLock(g) ==
  /\ mem.gor[g].pc = "calling"
  /\ MutexFree(mem)
  /\ mem' = [mem EXCEPT !.mu = g, !.gor[g].pc = "locked"]
  /\ UNCHANGED <<srv, idx, lk, cfg, dir, heap, l, sg, ret, rets, sgRets, kinds, onEmpty, calls>>
  /\ UNCHANGED <<sto, stoRets, mu, gor, wrote>>

\* record.Offset = uint64(len(c.records)) of g's Append.
MemStamp(g) ==
  /\ mem.gor[g].pc = "locked" /\ mem.gor[g].op = "Append"
  /\ mem' = [mem EXCEPT !.gor[g].pc = "stamped", !.gor[g].arg = Len(mem.records)]
  /\ UNCHANGED <<srv, idx, lk, cfg, dir, heap, l, sg, ret, rets, sgRets, kinds, onEmpty, calls>>
  /\ UNCHANGED <<sto, stoRets, mu, gor, wrote>>

\* c.records = append(c.records, record) of g's Append, its return of
\* record.Offset and the deferred c.mu.Unlock().
MemAppend(g) ==
  /\ mem.gor[g].pc = "stamped"
  /\ LET c == mem.gor[g] IN
     /\ mem' = [mem EXCEPT !.records = Append(@, [Value |-> c.value, Offset |-> c.arg]),
                           !.appended = Append(@, [g |-> g, off |-> c.arg, value |-> c.value]),
                           !.mu = 0,
                           !.gor[g] = Idle]
     /\ ret' = Ret("MemAppend", 0, c.value, c.arg, NoRecord, Nil, 0, NoObserved)
  /\ UNCHANGED <<srv, idx, lk, cfg, dir, heap, l, sg, rets, sgRets, kinds, onEmpty, calls>>
  /\ UNCHANGED <<sto, stoRets, mu, gor, wrote>>

\* The body of g's Read, its return and the deferred c.mu.Unlock().
MemRead(g) ==
  /\ mem.gor[g].pc = "locked" /\ mem.gor[g].op = "Read"
  /\ LET r == MemLogRead(mem, mem.gor[g].arg) IN
     ret' = Ret("MemRead", mem.gor[g].arg, <<>>, 0, <<r.rec>>, r.err, 0, NoObserved)
  /\ mem' = [mem EXCEPT !.mu = 0, !.gor[g] = Idle]
  /\ UNCHANGED <<srv, idx, lk, cfg, dir, heap, l, sg, rets, sgRets, kinds, onEmpty, calls>>
  /\ UNCHANGED <<sto, stoRets, mu, gor, wrote>>

NextMem ==
  \E g \in Goroutines :
    \/ \E v \in Values : MemCall(g, "Append", v, 0)
    \/ \E off \in Offsets : MemCall(g, "Read", <<>>, off)
    \/ MemLock(g)
    \/ MemStamp(g)
    \/ MemAppend(g)
    \/ MemRead(g)

SpecMem == InitMem /\ [][NextMem]_vars

\* ------------------------------------------------- restart without Close

\* The process that holds l ends without l.Close(), and NewLog(l.Dir,
\* l.Config) runs in a new process.  The directory is what the old process
\* left: every index file at the length newIndex gave it, with the entries
\* stored through the shared mapping, and every store file with the bytes
\* that were flushed; what the bufio.Writers still held is gone with the
\* process.
RestartCall ==
  /\ l.state = "open"
  /\ LET n == NewLog(dir, cfg) IN
     /\ SetState(n.st)
     /\ ret' = Ret("Restart", 0, <<>>, 0, NoRecord, n.err, 0, Observed(State))
  /\ onEmpty' = FALSE
  /\ rets' = <<>>
  /\ kinds' = {}
  /\ UNCHANGED <<srv, mem, idx, lk, cfg, sg, sgRets, calls>>
  /\ UNCHANGED <<sto, stoRets, mu, gor, wrote>>

NextRestart ==
  \/ \E v \in Values : AppendCall(v)
  \/ \E off \in Offsets : ReadCall(off)
  \/ RestartCall

SpecRestart == Init /\ [][NextRestart]_vars

\* ------------------------------------------------ a segment on its own

\* newSegment(dir, b, c) in a directory of its own, then calls on the
\* segment itself next to calls on a Log with the same Config.
InitSegment ==
  /\ InitLog(SegmentConfigs)
  /\ \E b \in Bases :
       LET n == newSegment(EmptyDir, b, WithDefaults(cfg)) IN
       sg = [seg |-> <<n.seg>>, fs |-> n.fs]
  /\ NoStore /\ NoGoroutines /\ NoIndex /\ NoServer /\ NoMem /\ NoLocks

\* s.Append(&api.Record{Value: v}) on the segment built on its own.  A
\* SIGBUS ends the process, and with it the segment object.
SegmentAppendCall(v) ==
  /\ sg.seg # <<>>
  /\ calls.sgAppends < MaxAppends
  /\ \E r \in {segmentAppend(sg.seg[1], sg.fs, [Value |-> v, Offset |-> 0])} :
     /\ sg' = [seg |-> IF r.err = SIGBUS THEN <<>> ELSE <<r.seg>>, fs |-> r.fs]
     /\ sgRets' = Append(sgRets, [off |-> r.off, err |-> r.err,
                                  maxed |-> IsMaxed(r.seg)])
     /\ ret' = Ret("segment.Append", 0, v, r.off, NoRecord, r.err, 0, NoObserved)
  /\ calls' = [calls EXCEPT !.sgAppends = @ + 1]
  /\ UNCHANGED <<srv, mem, idx, lk, cfg, dir, heap, l, rets, kinds, onEmpty>>
  /\ UNCHANGED <<sto, stoRets, mu, gor, wrote>>

\* s.Read(off) on the segment built on its own, baseOffset <= off.
SegmentReadCall(k) ==
  /\ sg.seg # <<>>
  /\ LET off == sg.seg[1].baseOffset + k
         r   == segmentRead(sg.seg[1], sg.fs, off)
     IN /\ sg' = [seg |-> <<r.seg>>, fs |-> r.fs]
        /\ ret' = Ret("segment.Read", off, <<>>, 0, r.rec, r.err, 0, NoObserved)
  /\ UNCHANGED <<srv, mem, idx, lk, cfg, dir, heap, l, rets, sgRets, kinds, onEmpty, calls>>
  /\ UNCHANGED <<sto, stoRets, mu, gor, wrote>>

NextSegment ==
  \/ \E v \in Values : SegmentAppendCall(v)
  \/ \E k \in 0..MaxAppends : SegmentReadCall(k)
  \/ \E v \in Values : AppendCall(v)

SpecSegment == InitSegment /\ [][NextSegment]_vars

\* s.Close() on the segment built on its own.
SegmentCloseCall ==
  /\ sg.seg # <<>>
  /\ \E r \in {segmentClose(sg.seg[1], sg.fs)} :
     /\ sg' = [seg |-> <<r.seg>>, fs |-> r.fs]
     /\ ret' = Ret("segment.Close", 0, <<>>, 0, NoRecord, r.err, 0, NoObserved)
  /\ UNCHANGED <<srv, mem, idx, lk, cfg, dir, heap, l, rets, sgRets, kinds, onEmpty, calls>>
  /\ UNCHANGED <<sto, stoRets, mu, gor, wrote>>

\* The offsets given to segment.Read where the whole range of uint64
\* matters: around both base offsets, one turn of uint32 above them, and
\* the largest uint64.
WideOffsets ==
  { 0, 1, 2, 15, 16, 17, 18, Wrap32, Wrap32 + 1, Wrap32 + 16, Wrap32 + 17,
    Wrap64 - 1 }

\* s.Read(off) on the segment built on its own, any off.
SegmentReadAt(off) ==
  /\ sg.seg # <<>>
  /\ \E r \in {segmentRead(sg.seg[1], sg.fs, off)} :
     /\ sg' = [seg |-> <<r.seg>>, fs |-> r.fs]
     /\ ret' = Ret("segment.Read", off, <<>>, 0, r.rec, r.err, 0, NoObserved)
  /\ UNCHANGED <<srv, mem, idx, lk, cfg, dir, heap, l, rets, sgRets, kinds, onEmpty, calls>>
  /\ UNCHANGED <<sto, stoRets, mu, gor, wrote>>

NextSegmentWide ==
  \/ \E v \in Values : SegmentAppendCall(v)
  \/ \E off \in WideOffsets : SegmentReadAt(off)

SpecSegmentWide == InitSegment /\ [][NextSegmentWide]_vars

\* Append, Read and Close on the segment built on its own.
NextSegmentClose ==
  \/ \E v \in Values : SegmentAppendCall(v)
  \/ \E k \in 0..MaxAppends : SegmentReadCall(k)
  \/ SegmentCloseCall

SpecSegmentClose == InitSegment /\ [][NextSegmentClose]_vars

\* ------------------------------------------------------------ Log.Reader

\* The sizes of the buffer given to the Read of the io.Reader.
Chunks == { 5, 512 }

\* io.ReadAll(l.Reader()), reading n bytes at a time: ret.value is the
\* stream.
ReaderCall(n) ==
  /\ l.state = "open"
  /\ LET r == LogReader(State, n) IN
     /\ SetState(r.st)
     /\ ret' = Ret("Reader", n, r.p, 0, NoRecord, r.err, 0, NoObserved)
  /\ kinds' = kinds \cup {"Reader"}
  /\ UNCHANGED <<srv, mem, idx, lk, cfg, sg, rets, sgRets, onEmpty, calls>>
  /\ UNCHANGED <<sto, stoRets, mu, gor, wrote>>

NextReader ==
  \/ \E v \in Values : AppendCall(v)
  \/ \E off \in Offsets : ReadCall(off)
  \/ \E lowest \in Offsets : TruncateCall(lowest)
  \/ \E n \in Chunks : ReaderCall(n)

SpecReader == Init /\ [][NextReader]_vars

\* ------------------------------------------------------------- goroutines

\* Goroutines calling one Log.  A call of Append or Read locks l.mu, runs
\* and unlocks on return.  Remove locks l.mu only inside its l.Close(), and
\* calls os.RemoveAll after that has returned; Reset calls l.setup() after
\* Remove has returned.  gor[g].pc is "idle" outside a call, "locked"
\* between l.mu.Lock() and the return, "RemoveAll" after the l.Close() of
\* Remove, "setup" after the Remove of Reset.  gor[g].arg is, for an
\* Append, the number of Append calls that had acquired l.mu before it.
InitGo == InitLog(Configs) /\ sg = NoSeg /\ NoStore /\ NoGoroutines /\ NoIndex /\ NoServer /\ NoMem /\ NoLocks

\* g calls l.Append, l.Read, l.Remove or l.Reset and acquires l.mu.
GoLock(g, op, v, off) ==
  /\ l.state # "crashed"
  /\ gor[g].pc = "idle" /\ mu = 0
  /\ op = "Append" => calls.appends < MaxAppends
  /\ mu' = g
  /\ gor' = [gor EXCEPT ![g] = [pc |-> "locked", op |-> op, value |-> v,
                                arg |-> IF op = "Append" THEN calls.appends ELSE off]]
  /\ calls' = IF op = "Append" THEN [calls EXCEPT !.appends = @ + 1] ELSE calls
  /\ UNCHANGED <<srv, mem, idx, lk, cfg, dir, heap, l, sg, ret, rets, sgRets, kinds, onEmpty>>
  /\ UNCHANGED <<sto, stoRets, wrote>>

\* The body of g's Append, up to the unlock on return.
GoAppend(g) ==
  /\ gor[g].pc = "locked" /\ gor[g].op = "Append"
  /\ \E v \in {gor[g].value} :
     \E r \in {LogAppend(State, [Value |-> v, Offset |-> 0])} :
        /\ SetState(r.st)
        /\ ret' = Ret("Append", 0, v, r.off, NoRecord, r.err, 0, NoObserved)
        /\ rets' = IF r.err = Nil THEN Append(rets, r.off) ELSE rets
        /\ wrote' = Append(wrote, [g |-> g, ticket |-> gor[g].arg, value |-> v,
                                   off |-> r.off, err |-> r.err])
        /\ kinds' = kinds \cup {IF r.err = Nil THEN "Append" ELSE "AppendFailed"}
  /\ mu' = 0
  /\ gor' = [gor EXCEPT ![g] = Idle]
  /\ UNCHANGED <<srv, mem, idx, lk, cfg, sg, sgRets, onEmpty, calls, sto, stoRets>>

\* The body of g's Read, up to the unlock on return.
GoRead(g) ==
  /\ gor[g].pc = "locked" /\ gor[g].op = "Read"
  /\ \E r \in {LogRead(State, gor[g].arg)} :
     /\ SetState(r.st)
     /\ ret' = Ret("Read", gor[g].arg, <<>>, 0, r.rec, r.err, r.Offset, NoObserved)
  /\ kinds' = kinds \cup {"Read"}
  /\ mu' = 0
  /\ gor' = [gor EXCEPT ![g] = Idle]
  /\ UNCHANGED <<srv, mem, idx, lk, cfg, sg, rets, sgRets, onEmpty, calls, sto, stoRets, wrote>>

\* The l.Close() of g's Remove or Reset, up to its unlock: on an error
\* the call returns it, else os.RemoveAll is next.
GoClose(g) ==
  /\ gor[g].pc = "locked" /\ gor[g].op \in {"Remove", "Reset"}
  /\ LET r == LogClose(State) IN
     /\ SetState(r.st)
     /\ IF r.err # Nil
        THEN /\ ret' = Ret(gor[g].op, 0, <<>>, 0, NoRecord, r.err, 0, NoObserved)
             /\ gor' = [gor EXCEPT ![g] = Idle]
        ELSE /\ ret' = ret
             /\ gor' = [gor EXCEPT ![g].pc = "RemoveAll"]
  /\ kinds' = kinds \cup {gor[g].op}
  /\ mu' = 0
  /\ UNCHANGED <<srv, mem, idx, lk, cfg, sg, rets, sgRets, onEmpty, calls, sto, stoRets, wrote>>

\* The os.RemoveAll(l.Dir) of g's Remove or Reset: Remove returns its
\* result, Reset goes on to l.setup().
GoRemoveAll(g) ==
  /\ l.state # "crashed"
  /\ gor[g].pc = "RemoveAll"
  /\ dir' = RemoveAll(dir)
  /\ IF gor[g].op = "Remove"
     THEN /\ ret' = Ret("Remove", 0, <<>>, 0, NoRecord, Nil, 0, NoObserved)
          /\ gor' = [gor EXCEPT ![g] = Idle]
     ELSE /\ ret' = ret
          /\ gor' = [gor EXCEPT ![g].pc = "setup"]
  /\ UNCHANGED <<srv, mem, idx, lk, cfg, heap, l, sg, rets, sgRets, kinds, onEmpty, calls>>
  /\ UNCHANGED <<sto, stoRets, mu, wrote>>

\* The l.setup() of g's Reset, and its return.
GoSetup(g) ==
  /\ l.state # "crashed"
  /\ gor[g].pc = "setup"
  /\ LET r == setup(State) IN
     /\ SetState(IF r.err = Nil THEN [r.st EXCEPT !.l.state = "open"] ELSE r.st)
     /\ ret' = Ret("Reset", 0, <<>>, 0, NoRecord, r.err, 0, NoObserved)
  /\ gor' = [gor EXCEPT ![g] = Idle]
  /\ UNCHANGED <<srv, mem, idx, lk, cfg, sg, rets, sgRets, kinds, onEmpty, calls>>
  /\ UNCHANGED <<sto, stoRets, mu, wrote>>

\* Goroutines that call Append and Read.
NextGo ==
  \E g \in Goroutines :
    \/ \E v \in Values : GoLock(g, "Append", v, 0)
    \/ \E off \in Offsets : GoLock(g, "Read", <<>>, off)
    \/ GoAppend(g)
    \/ GoRead(g)

SpecGo == InitGo /\ [][NextGo]_vars

\* Goroutines that call Append, Remove and Reset.
NextReset ==
  \E g \in Goroutines :
    \/ \E v \in Values : GoLock(g, "Append", v, 0)
    \/ GoLock(g, "Remove", <<>>, 0)
    \/ GoLock(g, "Reset", <<>>, 0)
    \/ GoAppend(g)
    \/ GoClose(g)
    \/ GoRemoveAll(g)
    \/ GoSetup(g)

SpecReset == InitGo /\ [][NextReset]_vars

\* -------------------------------------------------- an index on its own

\* The MaxIndexBytes of the indexes built on their own: room for exactly
\* two entries, for two entries and a half, and the 1024 of TestIndex.
IndexBytes == { 24, 30, 1024 }

\* The entries written: relative offsets and positions.
IndexEntries == { <<0, 0>>, <<1, 10>> }

\* newIndex(f, c) on an empty file.  idx.written holds the pairs of the
\* Write calls that returned nil, idx.writes counts the Write calls,
\* idx.opens the newIndex calls after the first.
InitIndex ==
  /\ InitLog(Configs) /\ sg = NoSeg /\ NoStore /\ NoGoroutines
  /\ NoServer /\ NoMem /\ NoLocks
  /\ \E m \in IndexBytes :
       LET c == [MaxStoreBytes |-> 0, MaxIndexBytes |-> m, InitialOffset |-> 0]
           n == newIndex(EmptyIndexFile, c)
       IN idx = [index |-> n.index, file |-> n.file, c |-> m,
                 written |-> <<>>, writes |-> 0, opens |-> 0]

\* idx.Write(off, pos)
IndexWriteCall(off, pos) ==
  /\ ~idx.index.closed
  /\ idx.writes < MaxWrites
  /\ LET r == indexWrite(idx.index, idx.file, off, pos) IN
     /\ idx' = [idx EXCEPT !.index = r.index, !.file = r.file,
                           !.written = IF r.err = Nil THEN Append(@, <<off, pos>>) ELSE @,
                           !.writes = @ + 1]
     /\ ret' = Ret("index.Write", off, <<pos>>, 0, NoRecord, r.err, 0, NoObserved)
  /\ UNCHANGED <<srv, mem, lk, cfg, dir, heap, l, sg, rets, sgRets, kinds, onEmpty, calls>>
  /\ UNCHANGED <<sto, stoRets, mu, gor, wrote>>

\* idx.Read(in): ret.off is the offset returned, ret.value the position.
IndexReadCall(in) ==
  /\ ~idx.index.closed
  /\ LET r == indexRead(idx.index, idx.file, in) IN
     ret' = Ret("index.Read", in, <<r.pos>>, r.out, NoRecord, r.err, 0, NoObserved)
  /\ UNCHANGED <<srv, mem, idx, lk, cfg, dir, heap, l, sg, rets, sgRets, kinds, onEmpty, calls>>
  /\ UNCHANGED <<sto, stoRets, mu, gor, wrote>>

\* idx.Close()
IndexCloseCall ==
  /\ ~idx.index.closed
  /\ LET r == indexClose(idx.index, idx.file) IN
     /\ idx' = [idx EXCEPT !.index = r.index, !.file = r.file]
     /\ ret' = Ret("index.Close", 0, <<>>, 0, NoRecord, r.err, 0, NoObserved)
  /\ UNCHANGED <<srv, mem, lk, cfg, dir, heap, l, sg, rets, sgRets, kinds, onEmpty, calls>>
  /\ UNCHANGED <<sto, stoRets, mu, gor, wrote>>

\* newIndex(f, c) on the file of the closed index, with the same Config.
IndexOpenCall ==
  /\ idx.index.closed
  /\ LET c == [MaxStoreBytes |-> 0, MaxIndexBytes |-> idx.c, InitialOffset |-> 0]
         n == newIndex(idx.file, c)
     IN idx' = [idx EXCEPT !.index = n.index, !.file = n.file, !.opens = 1]
  /\ ret' = Ret("newIndex", 0, <<>>, 0, NoRecord, Nil, 0, NoObserved)
  /\ UNCHANGED <<srv, mem, lk, cfg, dir, heap, l, sg, rets, sgRets, kinds, onEmpty, calls>>
  /\ UNCHANGED <<sto, stoRets, mu, gor, wrote>>

NextIndex ==
  \/ \E e \in IndexEntries : IndexWriteCall(e[1], e[2])
  \/ \E in \in -1..MaxWrites : IndexReadCall(in)
  \/ IndexCloseCall
  \/ IndexOpenCall

SpecIndex == InitIndex /\ [][NextIndex]_vars

\* -------------------------------------------------- a store on its own

\* The contents a store file can have when newStore opens it first: none,
\* or one frame written earlier.
StoreFiles == { <<>>, BigEndian(1, lenWidth) \o <<7>> }

\* newStore(f) on a file f, then calls on the store.  sto.from is the
\* number of Append calls made before the store object was built,
\* sto.opened the size the file had then.
InitStore ==
  /\ InitLog(Configs) /\ sg = NoSeg /\ NoGoroutines /\ NoIndex /\ NoServer /\ NoMem /\ NoLocks
  /\ \E f \in StoreFiles : sto = [store |-> newStore(f), file |-> f, from |-> 0, opened |-> Len(f)]
  /\ stoRets = <<>>

\* s.Append(p): what it was given, what it returned, the size before and
\* after.
StoreAppendCall(p) ==
  /\ Len(stoRets) < MaxAppends
  /\ LET r == storeAppend(sto.store, p) IN
     /\ sto' = [sto EXCEPT !.store = r.store]
     /\ stoRets' = Append(stoRets, [p |-> p, n |-> r.n, pos |-> r.pos, err |-> r.err,
                                    before |-> sto.store.size, after |-> r.store.size])
     /\ ret' = Ret("store.Append", 0, p, r.pos, NoRecord, r.err, 0, NoObserved)
  /\ UNCHANGED <<srv, mem, idx, lk, cfg, dir, heap, l, sg, rets, sgRets, kinds, onEmpty, calls>>
  /\ UNCHANGED <<mu, gor, wrote>>

\* s.Read(pos), pos a position an Append returned, 0, or the size.
StoreReadCall(pos) ==
  /\ pos \in {0, sto.store.size} \cup { stoRets[k].pos : k \in 1..Len(stoRets) }
  /\ LET r == storeRead(sto.store, sto.file, pos) IN
     /\ sto' = [sto EXCEPT !.store = r.store, !.file = r.file]
     /\ ret' = Ret("store.Read", pos, r.p, 0, NoRecord, r.err, 0, NoObserved)
  /\ UNCHANGED <<srv, mem, idx, lk, cfg, dir, heap, l, sg, rets, sgRets, kinds, onEmpty, calls>>
  /\ UNCHANGED <<stoRets, mu, gor, wrote>>

\* s.ReadAt(p, off) with len(p) = n.
StoreReadAtCall(n, off) ==
  /\ off \in {0, sto.store.size} \cup { stoRets[k].pos : k \in 1..Len(stoRets) }
  /\ LET r == storeReadAt(sto.store, sto.file, n, off) IN
     /\ sto' = [sto EXCEPT !.store = r.store, !.file = r.file]
     /\ ret' = Ret("store.ReadAt", off, r.p, 0, NoRecord, r.err, 0, NoObserved)
  /\ UNCHANGED <<srv, mem, idx, lk, cfg, dir, heap, l, sg, rets, sgRets, kinds, onEmpty, calls>>
  /\ UNCHANGED <<stoRets, mu, gor, wrote>>

\* s.Close()
StoreCloseCall ==
  /\ LET r == storeClose(sto.store, sto.file) IN
     /\ sto' = [sto EXCEPT !.store = r.store, !.file = r.file]
     /\ ret' = Ret("store.Close", 0, <<>>, 0, NoRecord, r.err, 0, NoObserved)
  /\ UNCHANGED <<srv, mem, idx, lk, cfg, dir, heap, l, sg, rets, sgRets, kinds, onEmpty, calls>>
  /\ UNCHANGED <<stoRets, mu, gor, wrote>>

\* newStore(f) on the file of a store that was closed with everything
\* appended to it flushed.
StoreOpenCall ==
  /\ sto.store.closed /\ sto.store.buf = <<>>
  /\ sto' = [sto EXCEPT !.store = newStore(sto.file), !.from = Len(stoRets),
                         !.opened = Len(sto.file)]
  /\ ret' = Ret("newStore", 0, <<>>, 0, NoRecord, Nil, 0, NoObserved)
  /\ UNCHANGED <<srv, mem, idx, lk, cfg, dir, heap, l, sg, rets, sgRets, kinds, onEmpty, calls>>
  /\ UNCHANGED <<stoRets, mu, gor, wrote>>

NextStore ==
  \/ \E p \in Values : StoreAppendCall(p)
  \/ \E pos \in 0..(MaxAppends * (lenWidth + 2) + lenWidth + 1) : StoreReadCall(pos)
  \/ \E pos \in 0..(MaxAppends * (lenWidth + 2) + lenWidth + 1) :
       StoreReadAtCall(lenWidth, pos)
  \/ StoreCloseCall
  \/ StoreOpenCall

SpecStore == InitStore /\ [][NextStore]_vars

\* -------------------------------------------------------------- properties

\* C1: on a Log opened on an empty directory, on which only Append and Read
\* were called, the k-th successful Append returned InitialOffset + k - 1:
\* the offsets start at InitialOffset and are dense, rollovers included.
C1_DenseOffsets ==
  (onEmpty /\ kinds \subseteq {"Append", "AppendFailed", "Read"}) =>
    \A k \in 1..Len(rets) : rets[k] = cfg.InitialOffset + k - 1

\* C1's case: MaxAppends appends went through, some of them past a rollover,
\* on a log whose InitialOffset is not 0.
C1_Witness ==
  /\ onEmpty /\ kinds = {"Append", "Read"}
  /\ cfg.InitialOffset > 0
  /\ Len(rets) = MaxAppends
  /\ Len(l.segments) >= 2

\* C2: in every state, when Append(r) has just returned (off, nil), Read(off)
\* returns a record with r's Value and Offset = off, and no error.
C2_AppendThenRead ==
  (ret.op = "Append" /\ ret.err = Nil) =>
    ReadResult(State, ret.off) =
      [rec |-> <<[Value |-> ret.value, Offset |-> ret.off]>>, err |-> Nil, Offset |-> 0]

\* C3: a Read(off) made when no segment of the list has
\* baseOffset <= off < nextOffset returns no record and
\* ErrOffsetOutOfRange{Offset: off}, and leaves the directory, the segments
\* and the Log as they were.
C3_ReadOutOfRange ==
  [][ ( /\ ret'.op = "Read"
        /\ ~ \E k \in 1..Len(l.segments) :
               /\ heap[l.segments[k]].baseOffset <= ret'.arg
               /\ ret'.arg < heap[l.segments[k]].nextOffset )
      => ( /\ ret'.rec = NoRecord
           /\ ret'.err = ErrOffsetOutOfRange
           /\ ret'.Offset = ret'.arg
           /\ UNCHANGED <<dir, heap, l>> ) ]_vars

\* C3's case: Read(HighestOffset() + 1) on a log that holds records was
\* answered with the error.
C3_Witness ==
  /\ ret.op = "Read" /\ ret.err = ErrOffsetOutOfRange /\ ret.Offset = ret.arg
  /\ rets # <<>> /\ l.segments # <<>>
  /\ HighestOffset(State).err = Nil
  /\ ret.arg = HighestOffset(State).off + 1

\* C4: when a Log on which Truncate was never called is closed and NewLog is
\* called with the same directory and Config, the new Log has the
\* LowestOffset(), the HighestOffset() and, for every offset, the Read
\* result the old Log had before Close.
C4_Persistence ==
  (ret.op = "NewLog" /\ ret.before # NoObserved /\ "Truncate" \notin ret.before.kinds) =>
    /\ LowestOffset(State) = ret.before.lowest
    /\ HighestOffset(State) = ret.before.highest
    /\ \A o \in Offsets : ReadResult(State, o) = ret.before.reads[o]

\* C4's case: a log of several segments holding MaxAppends records was
\* closed and opened again, and its last record is read.
C4_Witness ==
  /\ ret.op = "NewLog" /\ ret.before # NoObserved
  /\ ret.before.kinds = {"Append"}
  /\ Len(l.segments) >= 2
  /\ ret.before.highest = [off |-> cfg.InitialOffset + MaxAppends - 1, err |-> Nil]
  /\ ReadResult(State, cfg.InitialOffset + MaxAppends - 1).err = Nil

\* C5: after Truncate(lowest) returned nil, LowestOffset() returns an
\* offset; Read of every offset below it returns ErrOffsetOutOfRange, and
\* every offset at or above it that was readable before the call is read
\* with the same result.
C5_Truncate ==
  (ret.op = "Truncate" /\ ret.err = Nil) =>
    LET low == LowestOffset(State) IN
    /\ low.err = Nil
    /\ \A o \in Offsets :
         /\ o < low.off =>
              ReadResult(State, o) =
                [rec |-> NoRecord, err |-> ErrOffsetOutOfRange, Offset |-> o]
         /\ (o >= low.off /\ ret.before.reads[o].err = Nil) =>
              ReadResult(State, o) = ret.before.reads[o]

\* C6: in every state of an open Log the segment list is non-empty and the
\* active segment is its last element.
C6_ActiveIsLast ==
  l.state = "open" =>
    /\ l.segments # <<>>
    /\ l.activeSegment = l.segments[Len(l.segments)]

C8_Contiguous ==
  \A k \in 1..(Len(l.segments) - 1) :
    /\ heap[l.segments[k]].baseOffset < heap[l.segments[k + 1]].baseOffset
    /\ heap[l.segments[k + 1]].baseOffset = heap[l.segments[k]].nextOffset

\* C8's case: a log that rolled over and was truncated, closed and opened
\* again has several segments.
C8_Witness ==
  /\ ret.op = "NewLog" /\ ret.before # NoObserved
  /\ {"Append", "Truncate"} \subseteq ret.before.kinds
  /\ Len(l.segments) >= 2
  /\ heap[l.segments[2]].nextOffset > heap[l.segments[2]].baseOffset

\* C9: in every state of an open Log, which is where a Log.Append starts,
\* the active segment is not maxed.
C9_ActiveNotMaxed ==
  l.state = "open" => ~IsMaxed(heap[l.activeSegment])

\* C10: with MaxIndexBytes = entWidth * N and a store cap that is not
\* reached, on a fresh segment with baseOffset b the first N Appends
\* succeed with the offsets b, b+1, ..., every later one fails with io.EOF
\* and leaves IsMaxed() true; on a Log every Append succeeds with the next
\* offset, and the record after the N-th is in a later segment whose
\* baseOffset is InitialOffset + N.
C10_IndexCapacity ==
  LET c == WithDefaults(cfg)
      N == c.MaxIndexBytes \div entWidth
      b == sg.seg[1].baseOffset
      o == cfg.InitialOffset + N
  IN ( /\ c.MaxIndexBytes = entWidth * N
       /\ sg.seg[1].store.size < c.MaxStoreBytes
       /\ \A k \in DOMAIN heap : heap[k].store.size < c.MaxStoreBytes )
     => /\ \A k \in 1..Len(sgRets) :
             IF k <= N
             THEN sgRets[k].off = b + k - 1 /\ sgRets[k].err = Nil
             ELSE sgRets[k].err = EOF /\ sgRets[k].maxed
        /\ Len(rets) = calls.appends
        /\ \A k \in 1..Len(rets) : rets[k] = cfg.InitialOffset + k - 1
        /\ Len(rets) > N =>
             /\ Len(l.segments) >= 2
             /\ heap[l.segments[2]].baseOffset = o
             /\ o < heap[l.segments[2]].nextOffset
             /\ ReadResult(State, o).err = Nil

\* C10's case: N = 2; three Appends were made on the segment with base 16,
\* the third failed; three were made on the Log.
C10_Witness ==
  /\ WithDefaults(cfg).MaxIndexBytes = entWidth * 2
  /\ sg.seg[1].baseOffset = 16
  /\ Len(sgRets) = 3 /\ sgRets[3].err = EOF /\ sgRets[2].err = Nil
  /\ Len(rets) = 3

\* C18: every successful store.Append(p) returned n = lenWidth + len(p) and
\* pos = the size before the call, and left size = pos + n; of two
\* successful Appends on one store object with none between them the later
\* returned pos = the earlier pos + n; and the size of the store is the size
\* its file had at newStore plus the n of every successful Append since.
C18_StoreAppend ==
  LET ok(k) == stoRets[k].err = Nil
      own   == { k \in 1..Len(stoRets) : k > sto.from /\ ok(k) }
      RECURSIVE Sum(_)
      Sum(S) == IF S = {} THEN 0
                ELSE LET k == CHOOSE x \in S : TRUE IN stoRets[k].n + Sum(S \ {k})
  IN /\ \A k \in 1..Len(stoRets) :
          ok(k) => /\ stoRets[k].n = lenWidth + Len(stoRets[k].p)
                   /\ stoRets[k].pos = stoRets[k].before
                   /\ stoRets[k].after = stoRets[k].pos + stoRets[k].n
     /\ \A j, k \in own :
          (j < k /\ ~ \E m \in own : j < m /\ m < k) =>
            stoRets[k].pos = stoRets[j].pos + stoRets[j].n
     /\ sto.store.size = sto.opened + Sum(own)

\* C18's case: MaxAppends Appends succeeded on a store whose file was not
\* empty at newStore, the last of them still in the write buffer.
C18_Witness ==
  /\ Len(stoRets) = MaxAppends
  /\ \A k \in 1..Len(stoRets) : stoRets[k].err = Nil
  /\ sto.opened > 0 /\ sto.from = 0
  /\ sto.store.buf # <<>>
  /\ stoRets[MaxAppends].p # <<>>

\* C19: on a store that is not closed, Read(pos) of every position pos that
\* a successful Append(p) returned gives exactly p and no error: with the
\* data flushed or still buffered, after later Appends, and on a store
\* object built on the file after the store that appended was closed.
C19_StoreReadBack ==
  ~sto.store.closed =>
    \A k \in 1..Len(stoRets) :
      stoRets[k].err = Nil =>
        LET r == storeRead(sto.store, sto.file, stoRets[k].pos) IN
        r.err = Nil /\ r.p = stoRets[k].p

\* C19's case: a store object built on the file of a closed store, with
\* Appends made before and after, the later ones still in the write buffer.
C19_Witness ==
  /\ ~sto.store.closed
  /\ sto.from > 0 /\ Len(stoRets) = MaxAppends /\ sto.from < MaxAppends
  /\ \A k \in 1..Len(stoRets) : stoRets[k].err = Nil
  /\ stoRets[1].p # <<>> /\ stoRets[MaxAppends].p # <<>>
  /\ sto.store.buf # <<>>

C11_FailedAppendUnchanged ==
  [][ ( /\ Len(wrote') > Len(wrote)
        /\ wrote'[Len(wrote')].err \notin {Nil, SIGBUS} )
      => LET after == [dir |-> dir', heap |-> heap', l |-> l'] IN
         /\ LowestOffset(after) = LowestOffset(State)
         /\ HighestOffset(after) = HighestOffset(State)
         /\ \A o \in Offsets : ReadResult(after, o) = ReadResult(State, o) ]_vars

\* C12: among the successful Log.Append calls of the goroutines, a call
\* that acquired l.mu later returned a strictly larger offset; the offsets
\* returned are distinct and leave no gap.
C12_LockOrder ==
  LET ok  == { k \in 1..Len(wrote) : wrote[k].err = Nil }
      off == { wrote[k].off : k \in ok }
  IN /\ \A j, k \in ok :
          wrote[j].ticket < wrote[k].ticket => wrote[j].off < wrote[k].off
     /\ Cardinality(off) = Cardinality(ok)
     /\ \A a, b \in off : \A o \in a..b : o \in off

\* C12's case: MaxAppends Appends by both goroutines, goroutine 2 first,
\* across a rollover.
C12_Witness ==
  /\ Len(wrote) = MaxAppends
  /\ \A k \in 1..Len(wrote) : wrote[k].err = Nil
  /\ wrote[1].g = 2 /\ wrote[2].g = 1
  /\ Len(l.segments) >= 2

\* C13: with goroutines calling Append and Read only, once an Append has
\* returned k or a Read(k) has succeeded, Read(j) of every j with
\* LowestOffset() <= j <= k returns, without error, the record that the
\* Append that returned j wrote.
C13_ReadVisibility ==
  LET seen == { wrote[k].off : k \in { m \in 1..Len(wrote) : wrote[m].err = Nil } }
                \cup (IF ret.op = "Read" /\ ret.err = Nil THEN {ret.arg} ELSE {})
  IN \A k \in seen : \A j \in Offsets :
       (LowestOffset(State).off <= j /\ j <= k) =>
         \E m \in 1..Len(wrote) :
           /\ wrote[m].err = Nil /\ wrote[m].off = j
           /\ ReadResult(State, j) =
                [rec |-> <<[Value |-> wrote[m].value, Offset |-> j]>>,
                 err |-> Nil, Offset |-> 0]

\* C13's case: a Read of the first offset succeeded on a log of several
\* segments while the other goroutine holds l.mu for an Append.
C13_Witness ==
  /\ ret.op = "Read" /\ ret.err = Nil /\ ret.arg = cfg.InitialOffset
  /\ Len(l.segments) >= 2 /\ Len(rets) >= 2
  /\ \E g \in Goroutines : gor[g].pc = "locked" /\ gor[g].op = "Append"

\* C14: a goroutine that is inside Remove or Reset, between the closing of
\* the segments and the deletion of the directory or the setup, holds l.mu.
C14_RemoveHoldsLock ==
  \A g \in Goroutines : gor[g].pc \in {"RemoveAll", "setup"} => mu = g

\* C15: a Log.Reset returns nil and leaves one empty segment at
\* InitialOffset, which is the active one; LowestOffset() is InitialOffset,
\* Read of every offset returns ErrOffsetOutOfRange, and the next Append
\* returns InitialOffset.
C15_Reset ==
  [][ \A g \in Goroutines :
        (gor[g].op = "Reset" /\ gor[g].pc # "idle" /\ gor'[g].pc = "idle")
        => LET after == [dir |-> dir', heap |-> heap', l |-> l']
               b     == cfg.InitialOffset
           IN /\ ret'.op = "Reset" /\ ret'.err = Nil
              /\ l'.segments = <<b>> /\ l'.activeSegment = b
              /\ heap'[b].baseOffset = b /\ heap'[b].nextOffset = b
              /\ LowestOffset(after) = [off |-> b, err |-> Nil]
              /\ \A o \in Offsets : ReadResult(after, o).err = ErrOffsetOutOfRange
              /\ LET a == LogAppend(after, [Value |-> <<>>, Offset |-> 0])
                 IN a.err = Nil /\ a.off = b ]_vars

RECURSIVE RawStores(_, _)
\* The store files of the segments bases, in that order, each followed by
\* what its store still holds in the write buffer.
RawStores(st, bases) ==
  IF bases = <<>> THEN <<>>
  ELSE (Files(st.dir, bases[1]).store \o st.heap[bases[1]].store.buf)
       \o RawStores(st, Tail(bases))

\* C16: on an open log, reading Log.Reader() to the end returns no error
\* and exactly the store contents of the segments of the list, in list
\* order, each from byte 0 and with the bytes of its write buffer.
C16_ReaderStream ==
  [][ \A n \in Chunks :
        ReaderCall(n) =>
          /\ ret'.err = Nil
          /\ ret'.value = RawStores(State, l.segments)
          /\ l'.segments = l.segments ]_vars

\* C16's case: a stream over several segments, read in chunks that split
\* the frames, after MaxAppends Appends and no Read: the bytes were in the
\* write buffers until a Reader moved them to the files.
C16_Witness ==
  /\ ret.op = "Reader" /\ ret.arg = 5 /\ ret.err = Nil
  /\ Len(l.segments) >= 2
  /\ Len(ret.value) > Len(Files(dir, l.segments[1]).store)
  /\ Len(Files(dir, l.segments[1]).store) > 0
  /\ Len(rets) = MaxAppends
  /\ kinds = {"Append", "Reader"}

\* The offsets that Read returns a record for.
ReadableOffsets == { o \in Offsets : ReadResult(State, o).err = Nil }

\* C17: after a Log.Reader() of an open log was read to the end, the
\* frames of the stream are the records that Read returns, one frame per
\* readable offset in increasing order, and nothing else.
C17_ReaderFrames ==
  (ret.op = "Reader" /\ ret.err = Nil /\ l.state = "open") =>
    LET frames == Frames(ret.value)
        R      == ReadableOffsets
        k      == Cardinality(R)
    IN /\ Len(frames) = k
       /\ \A i \in 1..k :
            LET o == CHOOSE x \in R : Cardinality({ y \in R : y < x }) = i - 1
            IN /\ Unmarshal(frames[i]).err = Nil
               /\ ReadResult(State, o).rec = <<Unmarshal(frames[i]).rec>>

\* C21: a store that holds no write error has size = the length of its
\* file plus the bytes in its write buffer, so the file is never longer
\* than size; after a store.Close that returned nil, and after a Read or a
\* ReadAt on a store that is not closed, the write buffer is empty and the
\* length of the file equals size.
C21_StoreFlushed ==
  /\ sto.store.err = Nil => Len(sto.file) + Len(sto.store.buf) = sto.store.size
  /\ (ret.op = "store.Close" /\ ret.err = Nil) =>
       sto.store.buf = <<>> /\ Len(sto.file) = sto.store.size
  /\ (ret.op \in {"store.Read", "store.ReadAt"} /\ ~sto.store.closed) =>
       sto.store.buf = <<>> /\ Len(sto.file) = sto.store.size

\* C21's case: a Close returned nil on a store with MaxAppends successful
\* Appends, the last of them made after the last Read or ReadAt could
\* flush: the Close wrote it to the file.
C21_Witness ==
  /\ ret.op = "store.Close" /\ ret.err = Nil
  /\ Len(stoRets) = MaxAppends /\ sto.from = 0
  /\ \A k \in 1..Len(stoRets) : stoRets[k].err = Nil
  /\ Len(sto.file) = sto.opened + (MaxAppends * lenWidth) + 2
  /\ Len(sto.file) = sto.store.size

C23_IndexReopen ==
  LET c == Len(idx.written) IN
  /\ ~idx.index.closed => idx.file.len = idx.c
  /\ (ret.op = "index.Close" /\ ret.err = Nil) => idx.file.len = entWidth * c
  /\ ret.op = "newIndex" =>
       /\ idx.index.size = entWidth * c
       /\ \A n \in 0..(c - 1) :
            LET r == indexRead(idx.index, idx.file, n) IN
            r.err = Nil /\ <<r.out, r.pos>> = idx.written[n + 1]
       /\ c > 0 =>
            LET r == indexRead(idx.index, idx.file, -1) IN
            r.err = Nil /\ <<r.out, r.pos>> = idx.written[c]
       /\ indexRead(idx.index, idx.file, c).err = EOF

\* C23's case: newIndex on the file of an index that was closed with two
\* different entries, its file back at MaxIndexBytes.
C23_Witness ==
  /\ ret.op = "newIndex" /\ idx.opens = 1
  /\ Len(idx.written) = 2 /\ idx.written[1] # idx.written[2]
  /\ idx.file.len = idx.c /\ idx.index.size = 2 * entWidth

\* C24: every segment of the list has nextOffset >= baseOffset; its index
\* holds a whole number of entries, nextOffset - baseOffset of them; and
\* entry i holds the relative offset i.
C24_SegmentIndex ==
  \A k \in 1..Len(l.segments) :
    LET b == l.segments[k]
        s == heap[b]
        n == s.index.size \div entWidth
    IN /\ s.baseOffset = b
       /\ s.nextOffset >= s.baseOffset
       /\ s.index.size = n * entWidth
       /\ n = s.nextOffset - s.baseOffset
       /\ \A i \in 0..(n - 1) : Entry(Files(dir, b).index, i)[1] = i

\* C24's case: a log whose first segment holds two entries or more, built
\* from the files of a log that was closed after successful Appends and an
\* Append that failed.
C24_Witness ==
  /\ ret.op = "NewLog" /\ ret.err = Nil /\ l.state = "open" /\ ~onEmpty
  /\ ret.before.kinds = {"Append", "AppendFailed"}
  /\ Len(l.segments) >= 1
  /\ heap[l.segments[1]].nextOffset >= heap[l.segments[1]].baseOffset + 2

RECURSIVE FrameStarts(_, _)
\* The positions in the bytes b, from position at on, at which a complete
\* frame starts when b is read frame after frame.
FrameStarts(b, at) ==
  IF Len(b) < at + lenWidth THEN {}
  ELSE LET n == Uint64(SubSeq(b, at + 1, at + lenWidth)) IN
       IF Len(b) < at + lenWidth + n THEN {}
       ELSE {at} \cup FrameStarts(b, at + lenWidth + n)

\* C25: in every segment of the list, the position of every index entry is
\* the start of a frame that lies within the store (position + lenWidth +
\* length <= size), and the positions grow strictly with the entry number.
C25_IndexPositions ==
  \A k \in 1..Len(l.segments) :
    LET b   == l.segments[k]
        s   == heap[b]
        raw == RawStores(State, <<b>>)
        n   == s.index.size \div entWidth
        pos(i) == Entry(Files(dir, b).index, i)[2]
    IN /\ \A i \in 0..(n - 1) :
            /\ pos(i) \in FrameStarts(raw, 0)
            /\ pos(i) + lenWidth + Uint64(SubSeq(raw, pos(i) + 1, pos(i) + lenWidth))
                 <= s.store.size
       /\ \A i, j \in 0..(n - 1) : i < j => pos(i) < pos(j)

\* C25's case: a segment with two entries, the second at a position that
\* is not 0, and a frame after them that no entry points to.
C25_Witness ==
  /\ l.state = "open" /\ Len(l.segments) >= 1
  /\ LET b == l.segments[Len(l.segments)] IN
     /\ heap[b].index.size = 2 * entWidth
     /\ Entry(Files(dir, b).index, 1)[2] > lenWidth
     /\ Cardinality(FrameStarts(RawStores(State, <<b>>), 0)) > 2

\* C29: no Log.Append on an open log returns io.EOF: when the index of the
\* active segment has no room for another entry, the Log has rolled over
\* to a new segment before.
C29_AppendNeverEOF ==
  ret.op = "Append" => ret.err # EOF

\* C30: NewLog on the directory of a log that was not closed builds the
\* same segments, each with the baseOffset and the nextOffset it had in
\* the instance that wrote the files, and Read returns for every offset
\* what it returned before.
C30_RestartSameState ==
  [][ RestartCall =>
        /\ ret'.err = Nil
        /\ l'.segments = l.segments
        /\ \A k \in 1..Len(l.segments) :
             LET b == l.segments[k] IN
             /\ heap'[b].baseOffset = heap[b].baseOffset
             /\ heap'[b].nextOffset = heap[b].nextOffset
        /\ \A o \in Offsets :
             ReadResult([dir |-> dir', heap |-> heap', l |-> l'], o)
               = ReadResult(State, o) ]_vars

\* C26: a ConsumeStream started at offset s has sent, in this order and
\* once each, the records at s, s+1, ... up to its req.Offset, each the
\* record the log holds at that offset; it has returned nil only if the
\* context of the stream is done, and never ErrOffsetOutOfRange; a pass of
\* its loop that finds the offset out of range leaves it running, any
\* other error of Consume is returned; and whenever the record at
\* req.Offset is in the log, the stream goes on until it has returned or
\* req.Offset is past the records of the log: every record from s on
\* that is in the log is sent.
C26_ConsumeStream ==
  /\ [](srv.pc # "none" =>
         /\ srv.offset = srv.start + Len(srv.sent)
         /\ \A i \in 1..Len(srv.sent) :
              /\ srv.sent[i].Offset = srv.start + i - 1
              /\ ReadResult(State, srv.start + i - 1)
                   = [rec |-> <<srv.sent[i]>>, err |-> Nil, Offset |-> 0]
         /\ (srv.pc = "returned" /\ srv.err = Nil) => srv.done
         /\ srv.pc = "returned" => srv.err # ErrOffsetOutOfRange)
  /\ [][ (StreamStep /\ ~srv.done) =>
          LET c == Consume(State, srv.subject, srv.offset) IN
          /\ c.err = ErrOffsetOutOfRange => srv' = srv
          /\ c.err \notin {Nil, ErrOffsetOutOfRange} =>
               srv'.pc = "returned" /\ srv'.err = c.err ]_vars
  /\ (srv.pc = "running" /\ ReadResult(State, srv.offset).err = Nil)
       ~> (srv.pc = "returned" \/ ReadResult(State, srv.offset).err # Nil)

\* C26's case: a stream started at offset 1 has sent two records, from
\* two segments, and returned nil after its context was done.
C26_Witness ==
  /\ srv.pc = "returned" /\ srv.err = Nil /\ srv.done
  /\ srv.start = 1 /\ Len(srv.sent) = 2
  /\ srv.sent[1].Offset = 1 /\ srv.sent[2].Offset = 2
  /\ Len(l.segments) >= 2

\* C27: a Produce by a subject that the Authorizer rejects for "produce"
\* returns the error of the Authorizer and no offset, and leaves the
\* directory, the segments and the Log as they were; a Consume by a
\* subject rejected for "consume" returns the error of the Authorizer and
\* no record, and leaves them as they were.
C27_Unauthorized ==
  [][ /\ \A subject \in Subjects, v \in Values :
           (ProduceCall(subject, v) /\ Authorize(subject, "produce") # Nil) =>
             /\ ret'.err = Authorize(subject, "produce")
             /\ rets' = rets /\ ret'.off = 0
             /\ UNCHANGED <<dir, heap, l>>
      /\ \A subject \in Subjects, off \in Offsets :
           (ConsumeCall(subject, off) /\ Authorize(subject, "consume") # Nil) =>
             /\ ret'.err = Authorize(subject, "consume")
             /\ ret'.rec = NoRecord
             /\ UNCHANGED <<dir, heap, l>> ]_vars

\* C27's case: a Produce was rejected on a log that holds records of
\* authorized Produce calls, the last of them still in the write buffer.
C27_Witness ==
  /\ ret.op = "Produce" /\ ret.err = ErrPermissionDenied
  /\ Len(rets) >= 2
  /\ heap[l.activeSegment].store.buf # <<>>
  /\ "Consume" \in kinds

\* C28: the in-memory Log under goroutines calling Append and Read in any
\* interleaving: the k-th Append to return (k = 0, 1, 2, ...) returns offset
\* k, the record at index o of the log is the one that Append stored and
\* carries Offset o, a Read(o) with o below the number of records returns
\* that record, and a Read(o) at or beyond it returns ErrOffsetNotFound;
\* no Read changes the records.
C28_MemLog ==
  /\ [](/\ Len(mem.records) = Len(mem.appended)
        /\ \A k \in 1..Len(mem.appended) :
             /\ mem.appended[k].off = k - 1
             /\ mem.records[k] = [Value |-> mem.appended[k].value, Offset |-> k - 1])
  /\ [][\A g \in Goroutines : MemRead(g) =>
          LET o == mem.gor[g].arg IN
          /\ mem'.records = mem.records
          /\ ret'.arg = o
          /\ o < Len(mem.records) =>
               /\ ret'.err = Nil
               /\ ret'.rec = <<[Value |-> mem.appended[o + 1].value, Offset |-> o]>>
          /\ o >= Len(mem.records) =>
               /\ ret'.err = ErrOffsetNotFound
               /\ ret'.rec = <<ZeroRecord>>]_vars

\* C28's case: both goroutines have appended, a Read beyond the end has
\* returned ErrOffsetNotFound, and one goroutine is inside Append while
\* the other waits for the mutex with a Read of a stored offset.
C28_Witness ==
  /\ Len(mem.appended) >= 2
  /\ \E j, k \in 1..Len(mem.appended) : mem.appended[j].g # mem.appended[k].g
  /\ ret.op = "MemRead" /\ ret.err = ErrOffsetNotFound
  /\ \E g, h \in Goroutines :
       /\ mem.gor[g].pc = "stamped"
       /\ mem.gor[h].pc = "calling" /\ mem.gor[h].op = "Read"
       /\ mem.gor[h].arg < Len(mem.records)

\* C31: a Log.Append leaves every segment of the list other than the
\* active one as it was: it stays in the list, and its baseOffset, its
\* nextOffset, its index (size and entries) and the contents of its store
\* (file and write buffer) are the same after the call as before.
C31_AppendFrame ==
  [][ (\E v \in Values : AppendCall(v)) =>
        \A k \in 1..Len(l.segments) :
          LET b == l.segments[k] IN
          b # l.activeSegment =>
            /\ k <= Len(l'.segments) /\ l'.segments[k] = b
            /\ heap'[b].baseOffset = heap[b].baseOffset
            /\ heap'[b].nextOffset = heap[b].nextOffset
            /\ heap'[b].index = heap[b].index
            /\ Files(dir', b).index = Files(dir, b).index
            /\ heap'[b].store.size = heap[b].store.size
            /\ Files(dir', b).store \o heap'[b].store.buf
                 = Files(dir, b).store \o heap[b].store.buf ]_vars

\* C31's case: an Append has just written a record into the active segment
\* of a list that holds an earlier segment with records of its own.
C31_Witness ==
  /\ ret.op = "Append" /\ ret.err = Nil
  /\ Len(l.segments) >= 2
  /\ l.activeSegment = l.segments[Len(l.segments)]
  /\ ret.off >= l.activeSegment
  /\ heap[l.segments[1]].nextOffset > heap[l.segments[1]].baseOffset

\* C32: within one Log instance a segment only moves from active to sealed
\* to removed: the active segment only changes to a segment created by that
\* step, with a base offset above every base offset the instance has used;
\* a base offset that entered the list is new in the same way, so a removed
\* segment never comes back; and every Append writes into a segment that is
\* the last of the list, open, and whose files are in the directory.
C32_SegmentLifecycle ==
  [][ (l.state = "open" /\ l'.state = "open") =>
        LET listed  == { l.segments[k] : k \in 1..Len(l.segments) }
            listed2 == { l'.segments[k] : k \in 1..Len(l'.segments) }
        IN /\ l'.activeSegment # l.activeSegment =>
                /\ l'.activeSegment > l.activeSegment
                /\ \A b \in listed : l'.activeSegment > b
           /\ \A b \in listed2 \ listed :
                /\ b > l.activeSegment
                /\ \A c \in listed : b > c
           /\ (\E v \in Values : AppendCall(v)) =>
                LET b == l.activeSegment IN
                /\ l.segments # <<>> /\ l.segments[Len(l.segments)] = b
                /\ ~heap[b].store.closed /\ ~heap[b].index.closed
                /\ Files(dir, b).hasStore /\ Files(dir, b).hasIndex ]_vars

\* C33: a segment.Append that returns an error leaves nextOffset and the
\* index (its size, so its number of entries, and the entries) as they
\* were, and a segment.Append that succeeds returns the nextOffset it
\* found: the offset a failed call would have assigned is assigned by the
\* next call that succeeds.
C33_FailedSegmentAppend ==
  [][ \A v \in Values :
        (SegmentAppendCall(v) /\ ret'.err # SIGBUS) =>
          LET s == sg.seg[1]
              t == sg'.seg[1]
          IN IF ret'.err # Nil
             THEN /\ t.nextOffset = s.nextOffset
                  /\ t.index.size = s.index.size
                  /\ sg'.fs.index = sg.fs.index
                  /\ ret'.off = 0
             ELSE /\ ret'.off = s.nextOffset
                  /\ t.nextOffset = s.nextOffset + 1
                  /\ t.index.size = s.index.size + entWidth ]_vars

\* C33's case: on one segment an Append has failed in index.Write (io.EOF)
\* and a later one in store.Append (the error the bufio.Writer kept), after
\* an Append that succeeded.
C33_Witness ==
  /\ Len(sgRets) = 3
  /\ sgRets[1].err = Nil /\ sgRets[2].err = EOF /\ sgRets[3].err = ErrClosed
  /\ sg.seg # <<>>
  /\ sg.seg[1].nextOffset = sg.seg[1].baseOffset + 1

\* ------------------------------------------- NewLog on a given directory

\* The base offsets of the files of the directories NewLog is given.
SetupBases == { 0, 1, 2 }

\* The directory with an empty <b>.store for b in S and an empty <b>.index
\* for b in X, as newSegment and Close leave the files of a segment that
\* was never written.
DirOf(S, X) ==
  [exists |-> TRUE,
   store  |-> [b \in S |-> <<>>],
   index  |-> [b \in X |-> EmptyIndexFile]]

\* NewLog on a directory with any of the .store and .index files of
\* SetupBases, paired or not.
InitSetup ==
  /\ cfg \in Configs
  /\ \E S \in SUBSET SetupBases, X \in SUBSET SetupBases :
       \E n \in {NewLog(DirOf(S, X), cfg)} :
         /\ dir = n.st.dir /\ heap = n.st.heap /\ l = n.st.l
         /\ ret = Ret("NewLog", 0, <<>>, 0, NoRecord, n.err, 0, NoObserved)
         /\ onEmpty = (S \cup X = {})
  /\ rets = <<>>
  /\ sgRets = <<>>
  /\ kinds = {}
  /\ calls = [appends |-> 0, sgAppends |-> 0]
  /\ sg = NoSeg /\ NoStore /\ NoGoroutines /\ NoIndex /\ NoServer /\ NoMem /\ NoLocks

\* Append, Close and NewLog again on that directory.
NextSetup ==
  \/ \E v \in Values : AppendCall(v)
  \/ CloseCall
  \/ ReopenCall

SpecSetup == InitSetup /\ [][NextSetup]_vars

\* C34: after a NewLog that returned nil, the segment list has one segment
\* for each base offset that has a file in the directory (setup creates
\* the missing file of each segment it builds, and the initial segment in
\* an empty directory), in strictly ascending order: none twice, none
\* skipped.
C34_SetupOnePerBase ==
  (ret.op = "NewLog" /\ ret.err = Nil) =>
     /\ \A i \in 1..(Len(l.segments) - 1) : l.segments[i] < l.segments[i + 1]
     /\ {l.segments[i] : i \in 1..Len(l.segments)}
          = DOMAIN dir.store \cup DOMAIN dir.index

\* --------------------------------------------- calls on a Log after Close

\* l.Append(&api.Record{Value: v}) on a Log that was closed: Append does not
\* look at whether the files are open.  The record goes to the write buffer
\* of the store and to the mapping of the index, and a segment that is
\* maxed is followed by a new one, with open files.
AppendClosed(v) ==
  /\ l.state = "closed"
  /\ calls.appends < MaxAppends
  /\ \E r \in {LogAppend(State, [Value |-> v, Offset |-> 0])} :
     /\ SetState(r.st)
     /\ ret' = Ret("Append", 0, v, r.off, NoRecord, r.err, 0, NoObserved)
     /\ rets' = IF r.err = Nil THEN Append(rets, r.off) ELSE rets
     /\ kinds' = kinds \cup {IF r.err = Nil THEN "Append" ELSE "AppendFailed"}
  /\ calls' = [calls EXCEPT !.appends = @ + 1]
  /\ UNCHANGED <<srv, mem, idx, lk, cfg, sg, sgRets, onEmpty>>
  /\ UNCHANGED <<sto, stoRets, mu, gor, wrote>>

\* l.Close() on a Log that was closed.
CloseAgain ==
  /\ l.state = "closed"
  /\ \E r \in {LogClose(State)} :
     /\ SetState(r.st)
     /\ ret' = Ret("Close", 0, <<>>, 0, NoRecord, r.err, 0, NoObserved)
  /\ UNCHANGED <<srv, mem, idx, lk, cfg, sg, rets, sgRets, kinds, onEmpty, calls>>
  /\ UNCHANGED <<sto, stoRets, mu, gor, wrote>>

NextClose ==
  \/ \E v \in Values : AppendCall(v)
  \/ CloseCall
  \/ \E v \in Values : AppendClosed(v)
  \/ CloseAgain

SpecClose == Init /\ [][NextClose]_vars

\* C35: when Log.Close has returned, with nil or with an error, the store
\* file and the index file of every segment of the list are closed.
C35_CloseReleasesAll ==
  ret.op = "Close" =>
    \A k \in 1..Len(l.segments) :
      /\ heap[l.segments[k]].store.closed
      /\ heap[l.segments[k]].index.closed

\* C36: segment.Read(off) returns the record with offset off when
\* baseOffset <= off < nextOffset, and fails with io.EOF for every other
\* off of the uint64 range.
C36_SegmentReadRange ==
  (ret.op = "segment.Read" /\ sg.seg # <<>>) =>
    LET s == sg.seg[1] IN
    IF s.baseOffset <= ret.arg /\ ret.arg < s.nextOffset
    THEN ret.err = Nil /\ ret.rec # NoRecord /\ ret.rec[1].Offset = ret.arg
    ELSE ret.err = EOF /\ ret.rec = NoRecord

\* ------------------------------------- Truncate over the range of uint64

\* The arguments of Truncate where the whole range of uint64 matters: the
\* offsets a behaviour can assign, and the two largest values of uint64.
WideLowest == Offsets \cup { Wrap64 - 2, Wrap64 - 1 }

NextTruncateWide ==
  \/ \E v \in Values : AppendCall(v)
  \/ \E lowest \in WideLowest : TruncateCall(lowest)

SpecTruncateWide == Init /\ [][NextTruncateWide]_vars

\* C37: a Truncate(lowest) that returns nil leaves in the list exactly the
\* segments with nextOffset - 1 > lowest, in their order, for every lowest
\* of the uint64 range.
C37_TruncateRange ==
  [][ ((\E lowest \in WideLowest : TruncateCall(lowest)) /\ ret'.err = Nil) =>
        l'.segments = SelectSeq(l.segments,
                                LAMBDA b : heap[b].nextOffset - 1 > ret'.arg) ]_vars

\* ---------------------------------- Append, Read and Truncate on one Log

NextOffsets ==
  \/ \E v \in Values : AppendCall(v)
  \/ \E off \in Offsets : ReadCall(off)
  \/ \E lowest \in Offsets : TruncateCall(lowest)

SpecOffsets == Init /\ [][NextOffsets]_vars

\* C39: over Append, Read and Truncate calls on an open log, LowestOffset()
\* and HighestOffset() return values that never decrease from one call to
\* the next; and once an Append has succeeded, HighestOffset() is the
\* offset the most recent successful Append returned and LowestOffset() is
\* at most HighestOffset() + 1.
C39_OffsetsMonotone ==
  [][ LET lo  == LowestOffset(State)
          hi  == HighestOffset(State)
          lo1 == LowestOffset([dir |-> dir', heap |-> heap', l |-> l'])
          hi1 == HighestOffset([dir |-> dir', heap |-> heap', l |-> l'])
      IN /\ lo1.err = Nil /\ hi1.err = Nil
         /\ lo.off <= lo1.off
         /\ hi.off <= hi1.off
         /\ rets' # <<>> =>
              /\ hi1.off = rets'[Len(rets')]
              /\ lo1.off <= hi1.off + 1 ]_vars

\* ------------------------------------------------ the locks of goroutines

\* Goroutines calling one Log, lock by lock.  gor[g].pc is "idle" outside a
\* call; "Lock" or "RLock" in l.mu.Lock() or l.mu.RLock(); "locked" or
\* "rlocked" holding l.mu; "store" inside a store method under l.mu,
\* holding the mutex of that store; "drain" reading the stream of a Reader
\* that has returned, between two originReader.Read calls; "drainStore"
\* inside the store.ReadAt of such a Read.  gor[g].value is the base
\* offsets of the segments whose stores g has still to pass; inside a store
\* method the first of them is the store g is in.  The effect of a call on
\* the Log is taken at its return, the locks in the order of the code.

\* The record every goroutine appends.
LockRecord == [Value |-> <<>>, Offset |-> 0]

\* The offsets given to Read and Truncate by the goroutines.
LockOffsets == { 0, 1 }

\* The length of the buffer of a Read on the stream: more than a store of
\* the model holds, so that one ReadAt reads a store to its end.
DrainChunk == 512

\* sync.RWMutex: Lock waits for the writer and the readers to leave; RLock
\* waits for the writer, and for every goroutine that is waiting in Lock.
CanLock(g) == lk.w = 0 /\ lk.r = {}

CanRLock(g) == lk.w = 0 /\ ~\E h \in Goroutines : gor[h].pc = "Lock"

\* sync.Mutex of the store of segment b
StoreFree(b) == ~\E h \in Goroutines : <<b, h>> \in lk.s

\* The deferred l.mu.Unlock() that leaves the lock held when the call
\* returns an error.
Unlocked_NotOnError(g, err) == IF err = Nil THEN 0 ELSE g

\* The deferred l.mu.Unlock() of a call of g that returns err: the holder
\* of l.mu after it.
Unlocked(g, err) == 0

RECURSIVE CloseStores(_, _)
\* The stores whose Close is called when the segments bases are closed one
\* after the other: segment.Close returns before s.store.Close() when the
\* index fails to close, and the loop ends at the first error.
CloseStores(st, bases) ==
  IF bases = <<>> THEN <<>>
  ELSE LET b == Head(bases)
           c == segmentClose(st.heap[b], Files(st.dir, b))
       IN IF indexClose(st.heap[b].index, Files(st.dir, b).index).err # Nil
          THEN <<>>
          ELSE IF c.err # Nil THEN <<b>>
          ELSE <<b>> \o CloseStores(st, Tail(bases))

\* The stores a call passes while it holds l.mu, in order: that of the
\* active segment for Append; that of the covering segment for Read; for
\* Truncate those of the segments it removes; for Close those of the list.
StoresOf(st, op, arg) ==
  CASE op = "Append" -> <<st.l.activeSegment>>
    [] op = "Read" ->
         LET k == Covering(st, arg) IN
         IF k = 0 THEN <<>>
         ELSE LET b == st.l.segments[k] IN
              IF indexRead(st.heap[b].index, Files(st.dir, b).index,
                           ToInt64(ToUint64(arg - b))).err # Nil
              THEN <<>> ELSE <<b>>
    [] op = "Truncate" ->
         CloseStores(st, SelectSeq(st.l.segments,
                       LAMBDA b : st.heap[b].nextOffset <= ToUint64(arg + 1)))
    [] op = "Close" -> CloseStores(st, st.l.segments)
    [] OTHER -> <<>>

\* What a call that holds l.mu for writing does to the Log, and returns.
\* Truncate keeps the objects of the segments it removed: a stream may
\* still refer to their stores.
Locked(st, op, arg) ==
  CASE op = "Append" -> LogAppend(st, LockRecord)
    [] op = "Read" ->
         LET r == LogRead(st, arg) IN [st |-> r.st, off |-> 0, err |-> r.err]
    [] op = "Truncate" ->
         LET t == TruncateLoop(st, arg, 1, <<>>) IN
         [st  |-> IF t.err # Nil THEN t.st
                  ELSE [t.st EXCEPT !.l.segments = t.segments],
          off |-> 0, err |-> t.err]
    [] op = "Close" ->
         LET c == LogClose(st) IN [st |-> c.st, off |-> 0, err |-> c.err]
    [] OTHER -> [st |-> st, off |-> 0, err |-> Nil]

\* g calls a method of l and reaches its l.mu.Lock() or l.mu.RLock().
LockCall(g, op, arg) ==
  /\ l.state # "crashed"
  /\ gor[g].pc = "idle"
  /\ op = "Append" => calls.appends < MaxAppends
  /\ gor' = [gor EXCEPT ![g] =
               [pc    |-> IF op \in {"LowestOffset", "HighestOffset"}
                          THEN "RLock" ELSE "Lock",
                op |-> op, value |-> <<>>, arg |-> arg]]
  /\ calls' = IF op = "Append" THEN [calls EXCEPT !.appends = @ + 1] ELSE calls
  /\ UNCHANGED <<srv, mem, idx, lk, cfg, dir, heap, l, sg, ret, rets, sgRets, kinds, onEmpty>>
  /\ UNCHANGED <<sto, stoRets, mu, wrote>>

\* l.mu.Lock() returns.
LockAcquire(g) ==
  /\ l.state # "crashed"
  /\ gor[g].pc = "Lock"
  /\ CanLock(g)
  /\ lk' = [lk EXCEPT !.w = g]
  /\ \E todo \in {StoresOf(State, gor[g].op, gor[g].arg)} :
       gor' = [gor EXCEPT ![g].pc = "locked", ![g].value = todo]
  /\ UNCHANGED <<srv, mem, idx, cfg, dir, heap, l, sg, ret, rets, sgRets, kinds, onEmpty, calls>>
  /\ UNCHANGED <<sto, stoRets, mu, wrote>>

\* l.mu.RLock() returns.
RLockAcquire(g) ==
  /\ l.state # "crashed"
  /\ gor[g].pc = "RLock"
  /\ CanRLock(g)
  /\ lk' = [lk EXCEPT !.r = @ \cup {g}]
  /\ gor' = [gor EXCEPT ![g].pc = "rlocked"]
  /\ UNCHANGED <<srv, mem, idx, cfg, dir, heap, l, sg, ret, rets, sgRets, kinds, onEmpty, calls>>
  /\ UNCHANGED <<sto, stoRets, mu, wrote>>

\* s.mu.Lock() of the next store method of g returns.
StoreLock(g) ==
  /\ l.state # "crashed"
  /\ gor[g].pc \in {"locked", "drain"}
  /\ gor[g].value # <<>>
  /\ StoreFree(Head(gor[g].value))
  /\ lk' = [lk EXCEPT !.s = @ \cup {<<Head(gor[g].value), g>>}]
  /\ gor' = [gor EXCEPT ![g].pc = IF @ = "locked" THEN "store" ELSE "drainStore"]
  /\ UNCHANGED <<srv, mem, idx, cfg, dir, heap, l, sg, ret, rets, sgRets, kinds, onEmpty, calls>>
  /\ UNCHANGED <<sto, stoRets, mu, wrote>>

\* The store method g is in under l.mu returns: the deferred s.mu.Unlock().
StoreReturn(g) ==
  /\ l.state # "crashed"
  /\ gor[g].pc = "store"
  /\ lk' = [lk EXCEPT !.s = @ \ {<<Head(gor[g].value), g>>}]
  /\ gor' = [gor EXCEPT ![g].pc = "locked", ![g].value = Tail(@)]
  /\ UNCHANGED <<srv, mem, idx, cfg, dir, heap, l, sg, ret, rets, sgRets, kinds, onEmpty, calls>>
  /\ UNCHANGED <<sto, stoRets, mu, wrote>>

\* The call of g that holds l.mu for writing returns: its effect on the
\* Log, the deferred l.mu.Unlock(); after Reader g holds the stream of the
\* stores of the list.
LockReturn(g) ==
  /\ l.state # "crashed"
  /\ gor[g].pc = "locked"
  /\ gor[g].value = <<>>
  /\ \E r \in {Locked(State, gor[g].op, gor[g].arg)} :
     /\ SetState(r.st)
     /\ ret' = Ret(gor[g].op, gor[g].arg, <<>>, r.off, NoRecord, r.err, 0, NoObserved)
     /\ rets' = IF gor[g].op = "Append" /\ r.err = Nil
                THEN Append(rets, r.off) ELSE rets
     /\ lk' = [lk EXCEPT !.w = Unlocked(g, r.err)]
  /\ gor' = [gor EXCEPT ![g] =
               IF gor[g].op = "Reader" /\ l.segments # <<>>
               THEN [pc |-> "drain", op |-> "Reader", value |-> l.segments,
                     arg |-> 0]
               ELSE Idle]
  /\ UNCHANGED <<srv, mem, idx, cfg, sg, sgRets, kinds, onEmpty, calls>>
  /\ UNCHANGED <<sto, stoRets, mu, wrote>>

\* LowestOffset or HighestOffset of g returns: the deferred l.mu.RUnlock()
\* runs on the panic of an empty list as well, and the panic ends the
\* process.
RLockReturn(g) ==
  /\ l.state # "crashed"
  /\ gor[g].pc = "rlocked"
  /\ \E r \in {IF gor[g].op = "LowestOffset" THEN LowestOffset(State)
               ELSE HighestOffset(State)} :
     /\ ret' = Ret(gor[g].op, 0, <<>>, r.off, NoRecord, r.err, 0, NoObserved)
     /\ l' = IF r.err = Nil THEN l ELSE [l EXCEPT !.state = "crashed"]
  /\ lk' = [lk EXCEPT !.r = @ \ {g}]
  /\ gor' = [gor EXCEPT ![g] = Idle]
  /\ UNCHANGED <<srv, mem, idx, cfg, dir, heap, sg, rets, sgRets, kinds, onEmpty, calls>>
  /\ UNCHANGED <<sto, stoRets, mu, wrote>>

\* The store.ReadAt of g's originReader.Read returns: the flush, the bytes,
\* the deferred s.mu.Unlock().  On io.EOF the stream goes on to the next
\* store, on another error it ends.
DrainReturn(g) ==
  /\ l.state # "crashed"
  /\ gor[g].pc = "drainStore"
  /\ \E b \in {Head(gor[g].value)} :
     \E r \in {storeReadAt(heap[b].store, Files(dir, b).store, DrainChunk, 0)} :
       /\ SetState(PutSegment(State, [heap[b] EXCEPT !.store = r.store],
                              [Files(dir, b) EXCEPT !.store = r.file]))
       /\ ret' = Ret("originReader.Read", b, r.p, 0, NoRecord, r.err, 0, NoObserved)
       /\ lk' = [lk EXCEPT !.s = @ \ {<<b, g>>}]
       /\ gor' = [gor EXCEPT ![g] =
                    IF r.err = EOF /\ Tail(gor[g].value) # <<>>
                    THEN [@ EXCEPT !.pc = "drain", !.value = Tail(@)]
                    ELSE Idle]
  /\ UNCHANGED <<srv, mem, idx, cfg, sg, rets, sgRets, kinds, onEmpty, calls>>
  /\ UNCHANGED <<sto, stoRets, mu, wrote>>

NextLock ==
  \E g \in Goroutines :
    \/ LockCall(g, "Append", 0)
    \/ \E off \in LockOffsets : LockCall(g, "Read", off)
    \/ \E lowest \in LockOffsets : LockCall(g, "Truncate", lowest)
    \/ LockCall(g, "Reader", 0)
    \/ LockCall(g, "Close", 0)
    \/ LockCall(g, "LowestOffset", 0)
    \/ LockCall(g, "HighestOffset", 0)
    \/ LockAcquire(g)
    \/ RLockAcquire(g)
    \/ StoreLock(g)
    \/ StoreReturn(g)
    \/ LockReturn(g)
    \/ RLockReturn(g)
    \/ DrainReturn(g)

SpecLock == InitGo /\ [][NextLock]_vars

\* g has a step to take in the call it is in.
CanStep(g) ==
  CASE gor[g].pc = "idle"   -> FALSE
    [] gor[g].pc = "Lock"   -> CanLock(g)
    [] gor[g].pc = "RLock"  -> CanRLock(g)
    [] gor[g].pc = "locked" -> gor[g].value = <<>> \/ StoreFree(Head(gor[g].value))
    [] gor[g].pc = "drain"  -> gor[g].value # <<>> /\ StoreFree(Head(gor[g].value))
    [] OTHER -> TRUE

\* C38: while the process runs, whenever a goroutine is inside a call some
\* goroutine inside a call can take its next step; a goroutine outside a
\* call, waiting for l.mu or reading a stream holds no l.mu, a goroutine
\* outside a call or waiting for l.mu holds no store mutex, a store mutex
\* taken by a method of l is taken under l.mu, no goroutine holds two store
\* mutexes and no store mutex has two holders.
C38_NoDeadlock ==
  l.state # "crashed" =>
    /\ (\E g \in Goroutines : gor[g].pc # "idle") => \E g \in Goroutines : CanStep(g)
    /\ \A g \in Goroutines :
         /\ gor[g].pc \in {"idle", "Lock", "RLock", "drain", "drainStore"} =>
              lk.w # g /\ g \notin lk.r
         /\ gor[g].pc \in {"idle", "Lock", "RLock", "locked", "rlocked", "drain"} =>
              ~\E p \in lk.s : p[2] = g
         /\ gor[g].pc = "store" => lk.w = g
         /\ Cardinality({p \in lk.s : p[2] = g}) <= 1
    /\ \A p, q \in lk.s : p[1] = q[1] => p = q
    /\ lk.w # 0 => lk.r = {}

\* C38's case: a goroutine that holds l.mu waits for the mutex of a store
\* that a goroutine reading a stream holds inside store.ReadAt.
C38_Witness ==
  \E g, h \in Goroutines :
    /\ gor[g].pc = "locked" /\ gor[g].value # <<>>
    /\ gor[h].pc = "drainStore"
    /\ <<Head(gor[g].value), h>> \in lk.s

====
